---- MODULE Spec2Model ----
(***************************************************************************)
(* RimChess server (src/server.js, src/server_helper_functions.js): the    *)
(* game session engine.  One state machine, six specifications:            *)
(*   Spec       the first second of a paired game: move, resign, the       *)
(*              clock's tick, the end-game functions and every await at    *)
(*              which a handler is suspended;                              *)
(*   SpecClock  the clock of a paired game over a longer time, with the    *)
(*              5 s broadcast, under moves alone;                          *)
(*   SpecMoves  the moves of a paired game in its first second, with the   *)
(*              INSERT of a move record, which the handler does not wait   *)
(*              for, a step of its own (the others take it to be carried   *)
(*              out at its call);                                          *)
(*   SpecMatch  matchmaking: login, the loss of a socket, create_game,     *)
(*              cancel_matchmaking and search_for_game with the callbacks  *)
(*              of their statements;                                       *)
(*   SpecConn   a game in progress and a waiting game over four minutes:   *)
(*              sockets go away, the connection monitor sweeps, a player   *)
(*              logs in again and sends reconnect_to_game;                 *)
(*   SpecRating the rating helpers called with a database handle, several  *)
(*              calls at a time.                                           *)
(* Node runs one callback at a time: an action is one run-to-completion    *)
(* segment of a handler, from its start or from the completion of the      *)
(* I/O it awaits to its next await or its end.  What a handler answers to  *)
(* its sender in its first segment is an operator of the state and the     *)
(* command (MoveOutcome, ResignOutcome); what it emits to a game's room is *)
(* kept in room.                                                           *)
(*                                                                         *)
(* Conventions.  A user is identified with its username.  0 stands for     *)
(* null/undefined where the code holds a number, "" where it holds a       *)
(* string.  A position is identified with the sequence of moves that led   *)
(* to it.  A time control is carried in sixtieths of a minute              *)
(* (TimeControlUnit), so that the sub-minute controls create_game accepts  *)
(* (any JSON number) stay integers.                                        *)
(***************************************************************************)
EXTENDS Integers, Sequences, FiniteSets, Bags, TLC

(* ------------------------------ bounds -------------------------------- *)
MaxMoves == 2
MaxSteps == 1
MaxClockSteps == 6
MaxCalls == 2
MaxSent == 3
MaxMatchSteps == 1
MaxMinutes == 4
MaxReconnects == 1
MaxRated == 3
MaxRatingCalls == 2
MaxMovesAlone == 3

(* ------------------------- program constants -------------------------- *)
MsPerSecond == 1000
TickMs == 1000
SyncMs == 5000
SecondsPerMinute == 60
TimeControlUnit == SecondsPerMinute
DefaultTimeControl == 30
SweepMs == 60000
StaleMs == 180000
DefaultElo == 1200
EloFallback == 1200
FallbackMin == 0
FallbackMax == 4000
KFactorNew == 32
KFactorMid == 24
KFactorOld == 16
NewUntil == 10
MidUntil == 30
RatingFloor == 100

StepMs == TickMs
Cleared == 0 - 1

Users == 1 .. 3
Sockets == {"s1", "s2", "s3", "s4"}
GameIds == {"g1", "g2"}
NoId == ""
NoMove == ""
NoClient == [socketId |-> "", userId |-> 0, elo |-> 0]

(* Move descriptors a client can send, named by what chess.js answers:     *)
(* "bad" is illegal in every position; the others are legal wherever a     *)
(* legal move exists and lead to an ordinary position, a checkmate, a      *)
(* stalemate, or a position chess.js calls a draw.                         *)
MoveInputs == {"n", "mate", "stale", "draw", "bad"}
TimeControls == {1}
ClockTimeControls == {5}

(* The ratings of users 1, 2, 3 in the users table when the server starts  *)
EloProfiles == {<<3000, 1600, 4100>>, <<1200, 1350, 1150>>, <<1500, 1800, 1200>>}

(* What create_game can carry as timeControl, a JSON number: 0 stands for   *)
(* none                                                                    *)
MatchTimeControls == {0, 0 - 1}

(* The half-widths of the first three rating bands of search_for_game *)
BandWidths == <<100, 200, 400>>

VARIABLES
    now,               \* Date.now(), in ms since the server started
    connectedClients,  \* Map socketId -> client, in insertion order
    socketConnected,   \* socket.connected of every socket
    waitingGames,      \* array of waiting games
    activeGames,       \* keys of the activeGames Map
    gameObjects,       \* gameId -> the game object the Map value refers to
    dbUsers,           \* table users
    dbGames,           \* table games
    dbMoves,           \* table game_moves, in insertion order
    room,              \* gameId -> events emitted with io.to(gameId)
    calls,             \* bag of the handlers suspended at an await
    connectionHeartbeats, \* Map socketId -> last seen, Cleared once deleted
    sent               \* bag of the events search_for_game's callback emits

vars == <<now, connectedClients, socketConnected, waitingGames, activeGames,
          gameObjects, dbUsers, dbGames, dbMoves, room, calls,
          connectionHeartbeats, sent>>

connVars == <<connectedClients, socketConnected, connectionHeartbeats, sent>>
clientVars == <<connectedClients, socketConnected, sent>>
dbVars == <<dbUsers, dbGames, dbMoves>>
gameVars == <<activeGames, gameObjects>>

(* ------------------------------ helpers ------------------------------- *)
RemoveAt(s, i) == SubSeq(s, 1, i - 1) \o SubSeq(s, i + 1, Len(s))

BagAdd(bag, c) == bag (+) SetToBag({c})

BagRemove(bag, c) == bag (-) SetToBag({c})

Max(a, b) == IF a >= b THEN a ELSE b

Abs(a) == IF a >= 0 THEN a ELSE 0 - a

(* connectedClients.get(socketId) *)
ClientGet(socketId) ==
    IF \E i \in 1 .. Len(connectedClients) : connectedClients[i].socketId = socketId
    THEN connectedClients[CHOOSE i \in 1 .. Len(connectedClients) :
                              connectedClients[i].socketId = socketId]
    ELSE NoClient

(* Array.from(connectedClients.values()).find(c => c.userId === userId) *)
ClientFindByUser(userId) ==
    IF \E i \in 1 .. Len(connectedClients) : connectedClients[i].userId = userId
    THEN connectedClients[CHOOSE i \in 1 .. Len(connectedClients) :
                              /\ connectedClients[i].userId = userId
                              /\ \A j \in 1 .. (i - 1) : connectedClients[j].userId # userId]
    ELSE NoClient

(* The liveness table is read by the sweeper alone.  A specification      *)
(* without the sweeper does not keep it: its table is Untracked and stays  *)
(* so.                                                                     *)
Untracked == << >>

(* connectionHeartbeats.set(socket.id, Date.now()) *)
Heartbeat(s) ==
    IF connectionHeartbeats = Untracked THEN Untracked
    ELSE [connectionHeartbeats EXCEPT ![s] = now]

(* A handler that returns early: it has refreshed the heartbeat *)
OnlyHeartbeat(s) ==
    /\ connectionHeartbeats' = Heartbeat(s)
    /\ UNCHANGED <<now, clientVars, waitingGames, gameVars, dbVars, room, calls>>

(* ------------------------------ chess.js ------------------------------ *)
NewChess == [history |-> << >>]

ChessTurn(chess) == IF Len(chess.history) % 2 = 0 THEN "w" ELSE "b"

Last(h) == IF Len(h) = 0 THEN "" ELSE h[Len(h)]

IsCheckmate(chess) == Last(chess.history) = "mate"

IsStalemate(chess) == Last(chess.history) = "stale"

IsDraw(chess) == Last(chess.history) = "draw"

Fen(chess) == chess.history

(* chess.move(move): the move result, or null ("") for an illegal move.    *)
(* A chess.js that throws on an illegal move takes the handler to its      *)
(* catch, which emits one "error" to the sender in place of invalid_move   *)
(* and changes nothing either.                                             *)
ChessLegal(chess, move) ==
    /\ move \in MoveInputs \ {"bad"}
    /\ ~IsCheckmate(chess)
    /\ ~IsStalemate(chess)

ChessMove(chess, move) == [chess EXCEPT !.history = Append(@, move)]

(* ------------------------------ GameTimer ----------------------------- *)
TotalSeconds(timeControl) == (timeControl * SecondsPerMinute) \div TimeControlUnit

GameTimerNew(gameId, timeControl, playerId1, playerId2, t) ==
    [playerId1 |-> playerId1,
     playerId2 |-> playerId2,
     player1TimeRemaining |-> TotalSeconds(timeControl),
     player2TimeRemaining |-> TotalSeconds(timeControl),
     currentPlayer |-> 1,
     lastMoveTime |-> t,
     isActive |-> TRUE,
     timerInterval |-> t + TickMs,
     syncInterval |-> t + SyncMs]

TimerUpdateEv(timer) ==
    [type |-> "timer_update", currentPlayer |-> timer.currentPlayer]

(* A switchPlayer that restarts the running side's stretch without       *)
(* handing the clock over                                                  *)
SwitchPlayerKeepsSide(timer, t) ==
    [timer EXCEPT !.lastMoveTime = t]

SwitchPlayer(timer, t) ==
    [timer EXCEPT !.currentPlayer = IF @ = 1 THEN 2 ELSE 1,
                  !.lastMoveTime = t]

TimerStop(timer) ==
    [timer EXCEPT !.isActive = FALSE,
                  !.timerInterval = Cleared,
                  !.syncInterval = Cleared]

(* ---------------------------- game objects ---------------------------- *)
NewActiveGame(gameId, creatorId, joinerId, timeControl, t) ==
    [playerId1 |-> creatorId,
     playerId2 |-> joinerId,
     timer |-> GameTimerNew(gameId, timeControl, creatorId, joinerId, t),
     chess |-> NewChess,
     startTime |-> t]

GameRow(white, black, status, timeControl) ==
    [player_white_id |-> white,
     player_black_id |-> black,
     status |-> status,
     winner_id |-> 0,
     end_reason |-> "",
     total_moves |-> 0,
     time_control_minutes |-> timeControl]

UserRow(elo) == [elo |-> elo, games_played |-> 0, games_won |-> 0]

(* ------------------------------- events ------------------------------- *)
ErrorEv(message) == [type |-> "error", reason |-> message]

InvalidMoveEv(reason) == [type |-> "invalid_move", reason |-> reason]

MoveMadeEv(c, chess) ==
    [type |-> "move_made",
     san |-> c.san,
     fen |-> Fen(chess),
     turn |-> IF ChessTurn(chess) = "w" THEN "white" ELSE "black",
     player |-> c.userId]

(* player: resignedPlayer or timedOutPlayer, where game_over carries one; *)
(* eloChanges: << >> where it carries none                                 *)
GameOverEv(result, winner, reason, player, totalMoves, eloChanges) ==
    [type |-> "game_over",
     result |-> result,
     winner |-> winner,
     reason |-> reason,
     player |-> player,
     totalMoves |-> totalMoves,
     eloChanges |-> eloChanges]

(* What a handler's first segment answers to its sender: whether it went   *)
(* on or returned early, whether it called chess.move, and the events it   *)
(* emitted on the sender's socket.                                         *)
Rejected(oracle, replies) ==
    [outcome |-> "rejected", oracle |-> oracle, replies |-> replies]

Accepted(oracle, replies) ==
    [outcome |-> "accepted", oracle |-> oracle, replies |-> replies]

(* A handler suspended at an await *)
Call(fn, pc, gameId, userId, isPlayerWhite, san, winnerId, loserId, reason) ==
    [fn |-> fn, pc |-> pc, gameId |-> gameId, userId |-> userId,
     isPlayerWhite |-> isPlayerWhite, san |-> san,
     winnerId |-> winnerId, loserId |-> loserId, reason |-> reason]

(* ------------------------- socket.on("move") -------------------------- *)
IsPlayerTurn(currentTurn, isPlayerWhite) ==
    \/ (currentTurn = "w" /\ isPlayerWhite)
    \/ (currentTurn = "b" /\ ~isPlayerWhite)

(* The early returns of the handler, in the order of the code *)
MoveOutcome(s, gameId, move) ==
    LET client == ClientGet(s) IN
    IF client = NoClient
    THEN Rejected(FALSE, <<ErrorEv("User not authenticated")>>)
    ELSE IF gameId = NoId \/ move = NoMove
    THEN Rejected(FALSE, <<InvalidMoveEv("Game ID and move required")>>)
    ELSE IF gameId \notin activeGames
    THEN Rejected(FALSE, <<InvalidMoveEv("Game not found or no longer active")>>)
    ELSE LET activeGame == gameObjects[gameId]
             isPlayerWhite == client.userId = activeGame.playerId1
         IN  IF ~IsPlayerTurn(ChessTurn(activeGame.chess), isPlayerWhite)
             THEN Rejected(FALSE, <<InvalidMoveEv("Not your turn")>>)
             ELSE IF ~ChessLegal(activeGame.chess, move)
             THEN Rejected(TRUE, <<InvalidMoveEv("Invalid move")>>)
             ELSE Accepted(TRUE, << >>)

(* What the handler can write before its first await, as it stands *)
MoveWrites ==
    [gameObjects |-> gameObjects, activeGames |-> activeGames,
     dbMoves |-> dbMoves, room |-> room, calls |-> calls]

MoveRejectedSwitchesClock(s, gameId) ==
    IF gameId \in activeGames /\ ClientGet(s) # NoClient
    THEN [MoveWrites EXCEPT !.gameObjects[gameId].timer = SwitchPlayer(@, now)]
    ELSE MoveWrites

(* An early return: nothing but the reply *)
MoveRejected(s, gameId) == MoveWrites

(* The move is applied, the clock switched, and the handler awaits         *)
(* redis.set(fen)                                                          *)
MoveApply(s, gameId, move) ==
    LET activeGame == gameObjects[gameId]
        client == ClientGet(s)
        isPlayerWhite == client.userId = activeGame.playerId1
        chess2 == ChessMove(activeGame.chess, move)
        timer2 == SwitchPlayer(activeGame.timer, now)
    IN  [MoveWrites EXCEPT
            !.gameObjects[gameId] = [@ EXCEPT !.chess = chess2, !.timer = timer2],
            !.room[gameId] = Append(@, TimerUpdateEv(timer2)),
            !.calls = BagAdd(calls, Call("move", "redis1", gameId, client.userId,
                                         isPlayerWhite, move, 0, 0, ""))]

MoveEffect(s, gameId, move) ==
    IF MoveOutcome(s, gameId, move).outcome = "rejected"
    THEN MoveRejected(s, gameId)
    ELSE MoveApply(s, gameId, move)

(* The handler's first segment, in a game of at most maxMoves moves *)
MoveWithin(s, gameId, move, maxMoves) ==
    LET effect == MoveEffect(s, gameId, move) IN
    /\ socketConnected[s]
    /\ MoveOutcome(s, gameId, move).outcome = "accepted"
       => /\ Len(gameObjects[gameId].chess.history) < maxMoves
          /\ BagCardinality(calls) < MaxCalls
    /\ gameObjects' = effect.gameObjects
    /\ activeGames' = effect.activeGames
    /\ dbMoves' = effect.dbMoves
    /\ room' = effect.room
    /\ calls' = effect.calls
    /\ connectionHeartbeats' = Heartbeat(s)
    /\ UNCHANGED <<now, clientVars, waitingGames, dbUsers, dbGames>>

Move(s, gameId, move) == MoveWithin(s, gameId, move, MaxMoves)

(* ---------------- the end-game functions' first segment --------------- *)
EndCall(fn, gameId, winnerId, loserId, reason) ==
    Call(fn, "update", gameId, 0, FALSE, "", winnerId, loserId, reason)

(* detectGameEnd: the end-game call it starts, or a call with fn "" when   *)
(* the game goes on                                                        *)
DetectGameEnd(chess, gameId, winnerId, loserId) ==
    IF IsCheckmate(chess)
    THEN EndCall("endGameByCheckmate", gameId, winnerId, loserId, "checkmate")
    ELSE IF IsStalemate(chess)
    THEN EndCall("endGameByDraw", gameId, 0, 0, "stalemate")
    ELSE IF IsDraw(chess)
    THEN EndCall("endGameByDraw", gameId, 0, 0, "draw")
    ELSE EndCall("", gameId, 0, 0, "")

(* An INSERT of a move record handed to db.run and not yet carried out *)
InsertCall(rec) ==
    [fn |-> "insert", pc |-> "run", gameId |-> rec.game_id, rec |-> rec]

(* The rest of the move handler once the cache writes are over: the move   *)
(* record, then game_over's function or move_made.  db.run is given no     *)
(* callback and the handler does not wait for it: the INSERT is carried    *)
(* out at once, or (queued) is left to a later step.                       *)
MoveFinishWith(c, queued) ==
    LET activeGame == gameObjects[c.gameId]
        chess == activeGame.chess
        rec == [game_id |-> c.gameId,
                move_number |-> Len(chess.history),
                move_notation |-> c.san,
                player_id |-> c.userId]
        winnerId == IF c.isPlayerWhite THEN activeGame.playerId1 ELSE activeGame.playerId2
        loserId == IF c.isPlayerWhite THEN activeGame.playerId2 ELSE activeGame.playerId1
        end == DetectGameEnd(chess, c.gameId, winnerId, loserId)
        rest == IF queued THEN BagAdd(BagRemove(calls, c), InsertCall(rec))
                ELSE BagRemove(calls, c)
    IN  /\ dbMoves' = IF queued THEN dbMoves ELSE Append(dbMoves, rec)
        /\ IF end.fn # ""
           THEN /\ calls' = BagAdd(rest, end)
                /\ room' = room
           ELSE /\ calls' = rest
                /\ room' = [room EXCEPT ![c.gameId] = Append(@, MoveMadeEv(c, chess))]

MoveFinish(c) == MoveFinishWith(c, FALSE)

(* The same last segment, entered when the redis.set the handler awaits    *)
(* settles (the first: rejected), with the INSERT left to its own step     *)
MoveFinishQueued(c) ==
    /\ c.fn = "move"
    /\ c.pc \in {"redis1", "redis2"}
    /\ MoveFinishWith(c, TRUE)
    /\ UNCHANGED <<now, connVars, waitingGames, gameVars, dbUsers, dbGames>>

(* sqlite carries out a queued INSERT, or fails to: nobody is told *)
MoveRecordSettles(c) ==
    /\ c.fn = "insert"
    /\ calls' = BagRemove(calls, c)
    /\ \E ok \in BOOLEAN :
         dbMoves' = IF ok THEN Append(dbMoves, c.rec) ELSE dbMoves
    /\ UNCHANGED <<now, connVars, waitingGames, gameVars, dbUsers, dbGames, room>>

(* redis.set(fen) settles: resolved, the handler awaits redis.set(turn);   *)
(* rejected, the catch logs and the handler goes on                        *)
MoveRedisFen(c) ==
    /\ c.fn = "move"
    /\ c.pc = "redis1"
    /\ \E ok \in BOOLEAN :
         IF ok
         THEN /\ calls' = BagAdd(BagRemove(calls, c), [c EXCEPT !.pc = "redis2"])
              /\ UNCHANGED <<dbMoves, room>>
         ELSE MoveFinish(c)
    /\ UNCHANGED <<now, connVars, waitingGames, gameVars, dbUsers, dbGames>>

(* redis.set(turn) settles, resolved or rejected *)
MoveRedisTurn(c) ==
    /\ c.fn = "move"
    /\ c.pc = "redis2"
    /\ MoveFinish(c)
    /\ UNCHANGED <<now, connVars, waitingGames, gameVars, dbUsers, dbGames>>

(* ------------------------ socket.on("resign") ------------------------- *)
(* The handler's early returns and that of endGameByResignation: none of   *)
(* them emits anything                                                     *)
ResignOutcome(s, gameId) ==
    IF ClientGet(s) = NoClient \/ gameId = NoId \/ gameId \notin activeGames
    THEN Rejected(FALSE, << >>)
    ELSE Accepted(FALSE, << >>)

(* endGameByResignation to the await of its UPDATE *)
ResignWinner(game, resignedPlayerId) ==
    IF resignedPlayerId = game.playerId1 THEN game.playerId2 ELSE game.playerId1

Resign(s, gameId) ==
    /\ socketConnected[s]
    /\ IF ResignOutcome(s, gameId).outcome = "rejected"
       THEN OnlyHeartbeat(s)
       ELSE
         /\ BagCardinality(calls) < MaxCalls
         /\ connectionHeartbeats' = Heartbeat(s)
         /\ calls' = BagAdd(calls,
                EndCall("endGameByResignation", gameId,
                        ResignWinner(gameObjects[gameId], ClientGet(s).userId),
                        ClientGet(s).userId, "resignation"))
         /\ UNCHANGED <<now, clientVars, waitingGames, gameVars, dbVars, room>>

(* ------------- server_helper_functions.js: the ratings ---------------- *)
(* The helpers take the database handle as their last parameter db.  A     *)
(* handle on a users table is <<table>>; NoDb is the undefined a caller    *)
(* passes that leaves the parameter out, as endGameByCheckmate does.       *)
NoDb == << >>

Db(table) == <<table>>

(* What calculateEloChanges returns when a player is not found and from    *)
(* its catch                                                               *)
EloChangesNone ==
    [winnerChange |-> 0, loserChange |-> 0, winnerNewElo |-> 0, loserNewElo |-> 0]

KFactor(gamesPlayed) ==
    IF gamesPlayed < NewUntil THEN KFactorNew
    ELSE IF gamesPlayed < MidUntil THEN KFactorMid
    ELSE KFactorOld

(* Math.round(k * (1 - 1 / (1 + Math.pow(10, (loserElo - winnerElo) /      *)
(* 400)))) as a function of winnerElo - loserElo: it falls from k to 0 in  *)
(* unit steps, and EloSteps[k][j] is the greatest difference at which it   *)
(* is still j or more.  Math.round(k * (0 - 1 / (1 + Math.pow(10,          *)
(* (winnerElo - loserElo) / 400)))) is its negation at every integer       *)
(* difference.                                                             *)
EloSteps ==
    [k \in {KFactorNew, KFactorMid, KFactorOld} |->
        IF k = KFactorNew
        THEN <<719, 523, 428, 364, 314, 273, 237, 205, 176, 149, 124, 100, 77,
               54, 32, 10, -11, -33, -55, -78, -101, -125, -150, -177, -206,
               -238, -274, -315, -365, -429, -524, -720>>
        ELSE IF k = KFactorMid
        THEN <<668, 470, 373, 307, 254, 210, 172, 136, 104, 73, 43, 14, -15,
               -44, -74, -105, -137, -173, -211, -255, -308, -374, -471, -669>>
        ELSE <<596, 394, 292, 221, 162, 112, 65, 21, -22, -66, -113, -163,
               -222, -293, -395, -597>>]

RoundedGain(k, difference) ==
    Cardinality({j \in 1 .. k : difference <= EloSteps[k][j]})

(* calculateEloChanges from the two rows it has read *)
EloChangesOf(winner, loser) ==
    LET winnerChange == RoundedGain(KFactor(winner.games_played), winner.elo - loser.elo)
        loserChange == 0 - RoundedGain(KFactor(loser.games_played), winner.elo - loser.elo)
    IN  [winnerChange |-> winnerChange,
         loserChange |-> loserChange,
         winnerNewElo |-> winner.elo + winnerChange,
         loserNewElo |-> Max(RatingFloor, loser.elo + loserChange)]

(* calculateEloChanges when its two reads find the table as it is now:     *)
(* db.get on an undefined db throws inside getUserById, the Promise        *)
(* rejects and the catch answers                                           *)
CalculateEloChanges(winnerId, loserId, db) ==
    IF db = NoDb THEN EloChangesNone
    ELSE IF winnerId \notin DOMAIN db[1] \/ loserId \notin DOMAIN db[1]
    THEN EloChangesNone
    ELSE EloChangesOf(db[1][winnerId], db[1][loserId])

(* updatePlayerElos returns before its first statement *)
UpdateReturnsEarly(eloChanges) ==
    eloChanges.winnerChange = 0 /\ eloChanges.loserChange = 0

(* The UPDATE of the winner's row *)
WinnerRow(row, eloChanges) ==
    [row EXCEPT !.elo = @ + eloChanges.winnerChange,
                !.games_played = @ + 1,
                !.games_won = @ + 1]

(* The UPDATE of the loser's row had it no MAX *)
LoserRowNoFloor(row, eloChanges) ==
    [row EXCEPT !.elo = @ + eloChanges.loserChange,
                !.games_played = @ + 1]

(* The UPDATE of the loser's row *)
LoserRow(row, eloChanges) ==
    [row EXCEPT !.elo = Max(RatingFloor, @ + eloChanges.loserChange),
                !.games_played = @ + 1]

(* ---------------- the end-game functions' continuations --------------- *)
(* The last segment of endGameByCheckmate, endGameByResignation,           *)
(* endGameByTimeout and endGameByDraw: stop the timer, emit game_over,     *)
(* delete the session.  endGameByResignation holds the game object it read *)
(* before its awaits; the others read the Map now and may find nothing.    *)
(* endGameByCheckmate alone calls the rating helpers, and without a        *)
(* database handle: calculateEloChanges settles from its catch and         *)
(* updatePlayerElos returns early, both without I/O, so that the segment   *)
(* runs on to activeGames.delete and the users table is left as it is.     *)
EndGameFinish(c) ==
    LET found == c.fn = "endGameByResignation" \/ c.gameId \in activeGames
        eloChanges == IF c.fn = "endGameByCheckmate"
                      THEN <<CalculateEloChanges(c.winnerId, c.loserId, NoDb)>>
                      ELSE << >>
        result == IF c.fn = "endGameByDraw" THEN "draw" ELSE c.reason
        totalMoves == IF found THEN Len(gameObjects[c.gameId].chess.history) ELSE 0
        player == IF c.fn \in {"endGameByResignation", "endGameByTimeout"}
                  THEN c.loserId ELSE 0
    IN  /\ gameObjects' = IF found
                          THEN [gameObjects EXCEPT ![c.gameId].timer = TimerStop(@)]
                          ELSE gameObjects
        /\ room' = [room EXCEPT ![c.gameId] =
                        Append(@, GameOverEv(result, c.winnerId, c.reason, player,
                                             totalMoves, eloChanges))]
        /\ activeGames' = activeGames \ {c.gameId}
        /\ calls' = BagRemove(calls, c)

(* A rejected await inside an end-game function: its catch logs the error  *)
EndGameFailed(c) ==
    /\ calls' = BagRemove(calls, c)
    /\ UNCHANGED <<gameVars, room>>

(* The UPDATE of the games row *)
FinishedRow(row, c) ==
    IF c.fn = "endGameByDraw"
    THEN [row EXCEPT !.status = "finished", !.end_reason = c.reason]
    ELSE [row EXCEPT !.status = "finished", !.winner_id = c.winnerId,
                     !.end_reason = c.reason]

(* The UPDATE settles *)
EndGameUpdate(c, ok) ==
    /\ c.pc = "update"
    /\ IF ~ok
       THEN /\ EndGameFailed(c)
            /\ dbGames' = dbGames
       ELSE /\ dbGames' = IF c.gameId \in DOMAIN dbGames
                          THEN [dbGames EXCEPT ![c.gameId] = FinishedRow(@, c)]
                          ELSE dbGames
            /\ IF c.fn = "endGameByDraw"
               THEN EndGameFinish(c)
               ELSE /\ calls' = BagAdd(BagRemove(calls, c), [c EXCEPT !.pc = "users"])
                    /\ UNCHANGED <<gameVars, room>>
    /\ UNCHANGED <<now, connVars, waitingGames, dbUsers, dbMoves>>

(* The two getUserById reads settle *)
EndGameUsers(c, ok) ==
    /\ c.pc = "users"
    /\ IF ok THEN EndGameFinish(c) ELSE EndGameFailed(c)
    /\ UNCHANGED <<now, connVars, waitingGames, dbVars>>

(* --------------------- GameTimer's interval callbacks ------------------ *)
(* handleTimeExpiry had it left the clock running: no isActive = false,   *)
(* no clearInterval                                                        *)
HandleTimeExpiryKeepsRunning(gameId, timer, timedOutPlayerId) ==
    LET winnerId == IF timedOutPlayerId = timer.playerId1
                    THEN timer.playerId2 ELSE timer.playerId1
    IN  /\ gameObjects' = [gameObjects EXCEPT ![gameId].timer = timer]
        /\ calls' = BagAdd(calls, EndCall("endGameByTimeout", gameId, winnerId,
                                          timedOutPlayerId, "timeout"))

(* handleTimeExpiry with endGameByTimeout to the await of its UPDATE *)
HandleTimeExpiry(gameId, timer, timedOutPlayerId) ==
    LET winnerId == IF timedOutPlayerId = timer.playerId1
                    THEN timer.playerId2 ELSE timer.playerId1
    IN  /\ gameObjects' = [gameObjects EXCEPT ![gameId].timer = TimerStop(timer)]
        /\ calls' = BagAdd(calls, EndCall("endGameByTimeout", gameId, winnerId,
                                          timedOutPlayerId, "timeout"))

(* startTimer's callback *)
TimerTick(gameId) ==
    /\ gameId \in DOMAIN gameObjects
    /\ LET timer == gameObjects[gameId].timer
           elapsed == (now - timer.lastMoveTime) \div MsPerSecond
           next == [timer EXCEPT !.timerInterval = now + TickMs]
           t1 == [next EXCEPT !.player1TimeRemaining = Max(0, @ - elapsed)]
           t2 == [next EXCEPT !.player2TimeRemaining = Max(0, @ - elapsed)]
       IN  /\ timer.timerInterval # Cleared
           /\ now >= timer.timerInterval
           /\ IF ~timer.isActive
              THEN /\ gameObjects' = [gameObjects EXCEPT ![gameId].timer = next]
                   /\ calls' = calls
              ELSE IF timer.currentPlayer = 1
              THEN IF t1.player1TimeRemaining <= 0
                   THEN HandleTimeExpiry(gameId, t1, timer.playerId1)
                   ELSE /\ gameObjects' = [gameObjects EXCEPT ![gameId].timer =
                                              [t1 EXCEPT !.lastMoveTime = now]]
                        /\ calls' = calls
              ELSE IF t2.player2TimeRemaining <= 0
                   THEN HandleTimeExpiry(gameId, t2, timer.playerId2)
                   ELSE /\ gameObjects' = [gameObjects EXCEPT ![gameId].timer =
                                              [t2 EXCEPT !.lastMoveTime = now]]
                        /\ calls' = calls
    /\ UNCHANGED <<now, connVars, waitingGames, activeGames, dbVars, room>>

(* startRealTimeSync's callback *)
TimerSync(gameId) ==
    /\ gameId \in DOMAIN gameObjects
    /\ LET timer == gameObjects[gameId].timer IN
           /\ timer.syncInterval # Cleared
           /\ now >= timer.syncInterval
           /\ gameObjects' = [gameObjects EXCEPT ![gameId].timer.syncInterval = now + SyncMs]
           /\ room' = IF timer.isActive
                      THEN [room EXCEPT ![gameId] = Append(@, TimerUpdateEv(timer))]
                      ELSE room
    /\ UNCHANGED <<now, connVars, waitingGames, activeGames, dbVars, calls>>

(* Time passes, a second at a time, while an interval is set; a callback   *)
(* that is due runs before the next second does.                           *)
TickDue(gameId) ==
    LET timer == gameObjects[gameId].timer IN
    timer.timerInterval # Cleared /\ now >= timer.timerInterval

SyncDue(gameId) ==
    LET timer == gameObjects[gameId].timer IN
    timer.syncInterval # Cleared /\ now >= timer.syncInterval

AdvanceTime(maxSteps) ==
    /\ now < maxSteps * StepMs
    /\ \E gameId \in DOMAIN gameObjects : gameObjects[gameId].timer.timerInterval # Cleared
    /\ \A gameId \in DOMAIN gameObjects : ~TickDue(gameId) /\ ~SyncDue(gameId)
    /\ now' = now + StepMs
    /\ UNCHANGED <<connVars, waitingGames, gameVars, dbVars, room, calls>>

(* --------------------------- specifications --------------------------- *)
ClientOf(socketId, userId) ==
    [socketId |-> socketId, userId |-> userId, elo |-> DefaultElo]

(* A game just paired by search_for_game: users 1 and 2 play it, user 3 is *)
(* logged in and plays no game, socket s4 has not logged in.               *)
InitGame(timeControls) ==
    \E pair \in {<<1, 2>>}, timeControl \in timeControls :
        /\ now = 0
        /\ connectedClients = <<ClientOf("s1", 1), ClientOf("s2", 2), ClientOf("s3", 3)>>
        /\ socketConnected = [s \in Sockets |-> TRUE]
        /\ waitingGames = << >>
        /\ activeGames = {"g1"}
        /\ gameObjects = [g \in {"g1"} |->
                             NewActiveGame(g, pair[1], pair[2], timeControl, 0)]
        /\ dbUsers = [u \in Users |-> UserRow(DefaultElo)]
        /\ dbGames = [g \in {"g1"} |-> GameRow(pair[1], pair[2], "inprogress", timeControl)]
        /\ dbMoves = << >>
        /\ room = [g \in GameIds |-> << >>]
        /\ calls = EmptyBag
        /\ connectionHeartbeats = Untracked
        /\ sent = EmptyBag

Init == InitGame(TimeControls)

(* The commands clients send.  A handler that finds no client for the      *)
(* socket reads nothing of the command, and one that finds no game object  *)
(* for the game id reads of the move only whether there is one: one        *)
(* command of each kind stands for the others.                             *)
MoveCommands ==
    {cmd \in Sockets \X (GameIds \cup {NoId}) \X (MoveInputs \cup {NoMove}) :
        /\ ClientGet(cmd[1]) = NoClient => (cmd[2] = NoId /\ cmd[3] = NoMove)
        /\ cmd[2] \notin DOMAIN gameObjects => cmd[3] = "n"}

ResignCommands ==
    {cmd \in Sockets \X (GameIds \cup {NoId}) :
        ClientGet(cmd[1]) = NoClient => cmd[2] = NoId}

Next ==
    \/ \E cmd \in MoveCommands : Move(cmd[1], cmd[2], cmd[3])
    \/ \E cmd \in ResignCommands : Resign(cmd[1], cmd[2])
    \/ \E c \in BagToSet(calls) : MoveRedisFen(c)
    \/ \E c \in BagToSet(calls) : MoveRedisTurn(c)
    \/ \E c \in BagToSet(calls), ok \in BOOLEAN : EndGameUpdate(c, ok)
    \/ \E c \in BagToSet(calls), ok \in BOOLEAN : EndGameUsers(c, ok)
    \/ \E gameId \in GameIds : TimerTick(gameId)
    \/ AdvanceTime(MaxSteps)

Spec == Init /\ [][Next]_vars

(* The clock of a paired game over MaxClockSteps seconds: the players      *)
(* move, nobody resigns.                                                   *)
InitClock == InitGame(ClockTimeControls)

ClockCommands == {"s1", "s2"} \X {"g1"} \X {"n"}

NextClock ==
    \/ \E cmd \in ClockCommands : Move(cmd[1], cmd[2], cmd[3])
    \/ \E c \in BagToSet(calls) : MoveRedisFen(c)
    \/ \E c \in BagToSet(calls) : MoveRedisTurn(c)
    \/ \E c \in BagToSet(calls), ok \in BOOLEAN : EndGameUpdate(c, ok)
    \/ \E c \in BagToSet(calls), ok \in BOOLEAN : EndGameUsers(c, ok)
    \/ \E gameId \in GameIds : TimerTick(gameId)
    \/ \E gameId \in GameIds : TimerSync(gameId)
    \/ AdvanceTime(MaxClockSteps)

SpecClock == InitClock /\ [][NextClock]_vars

(* The moves of a paired game in its first second, with every INSERT of a  *)
(* move record a step of its own.                                          *)
MovesCommands == {"s1", "s2", "s3"} \X {"g1"} \X {"n", "bad"}

NextMoves ==
    \/ \E cmd \in MovesCommands : MoveWithin(cmd[1], cmd[2], cmd[3], MaxMovesAlone)
    \/ \E c \in BagToSet(calls) : MoveRedisFen(c)
    \/ \E c \in BagToSet(calls) : MoveRedisTurn(c)
    \/ \E c \in BagToSet(calls) : MoveFinishQueued(c)
    \/ \E c \in BagToSet(calls) : MoveRecordSettles(c)
    \/ \E gameId \in GameIds : TimerTick(gameId)
    \/ AdvanceTime(MaxSteps)

SpecMoves == InitClock /\ [][NextMoves]_vars


(* ============================ matchmaking ============================== *)
MatchCall(fn, pc, gameId, socketId, userId, game) ==
    [fn |-> fn, pc |-> pc, gameId |-> gameId, socketId |-> socketId,
     userId |-> userId, game |-> game]

(* An event emitted on one socket *)
SentEv(type, to, gameId, yourColor, message) ==
    [type |-> type, to |-> to, gameId |-> gameId, yourColor |-> yourColor,
     message |-> message]

(* A second passes while no interval callback is due *)
TimePasses(maxSteps) ==
    /\ now < maxSteps * StepMs
    /\ \A gameId \in DOMAIN gameObjects : ~TickDue(gameId) /\ ~SyncDue(gameId)
    /\ now' = now + StepMs
    /\ UNCHANGED <<connVars, waitingGames, gameVars, dbVars, room, calls>>

(* -------------------------- socket.on("login") ------------------------ *)
(* login with a known username and its password: the heartbeat, then       *)
(* connectedClients.set(socket.id, ...) with the rating of the users row.  *)
(* The SELECT and bcrypt.compare it awaits write nothing.                  *)
Login(s, userId) ==
    LET client == [socketId |-> s, userId |-> userId, elo |-> dbUsers[userId].elo] IN
    /\ socketConnected[s]
    /\ connectionHeartbeats' = Heartbeat(s)
    /\ connectedClients' =
           IF ClientGet(s) = NoClient
           THEN Append(connectedClients, client)
           ELSE [i \in 1 .. Len(connectedClients) |->
                    IF connectedClients[i].socketId = s THEN client
                    ELSE connectedClients[i]]
    /\ UNCHANGED <<now, socketConnected, sent, waitingGames, gameVars, dbVars,
                   room, calls>>

(* socket.on("heartbeat") *)
HeartbeatEvent(s) ==
    /\ socketConnected[s]
    /\ OnlyHeartbeat(s)

DisconnectEndsGames(s) ==
    /\ socketConnected[s]
    /\ socketConnected' = [socketConnected EXCEPT ![s] = FALSE]
    /\ activeGames' = {g \in activeGames :
                          ClientGet(s).userId \notin {gameObjects[g].playerId1,
                                                      gameObjects[g].playerId2}}
    /\ UNCHANGED <<now, connectedClients, connectionHeartbeats, sent,
                   waitingGames, gameObjects, dbVars, room, calls>>

(* --------------------------- a socket goes away ----------------------- *)
(* io.on("connection") runs the block that follows the cancel_matchmaking  *)
(* handler: a socket that has just connected has no client, the block      *)
(* returns, and socket.on("disconnect") below it is never reached.  When   *)
(* the socket goes away no handler runs.                                   *)
Disconnect(s) ==
    /\ socketConnected[s]
    /\ socketConnected' = [socketConnected EXCEPT ![s] = FALSE]
    /\ UNCHANGED <<now, connectedClients, connectionHeartbeats, sent,
                   waitingGames, gameVars, dbVars, room, calls>>

(* ------------------------------ the sweeper --------------------------- *)
(* DELETE FROM games WHERE id = ? AND status = 'waiting' *)
DeleteWaitingRow(rows, id) ==
    IF id \in DOMAIN rows /\ rows[id].status = "waiting"
    THEN [g \in DOMAIN rows \ {id} |-> rows[g]]
    ELSE rows

(* What cleanupClient reads and writes *)
ConnState ==
    [connectedClients |-> connectedClients,
     connectionHeartbeats |-> connectionHeartbeats,
     waitingGames |-> waitingGames,
     dbGames |-> dbGames]

(* cleanupClient: the client is deleted first, so that the waiting game    *)
(* is looked up with the client connectedClients.get finds after the       *)
(* deletion                                                                *)
CleanupClient(st, socketId) ==
    LET clients == SelectSeq(st.connectedClients, LAMBDA c : c.socketId # socketId)
        client == IF \E i \in 1 .. Len(clients) : clients[i].socketId = socketId
                  THEN clients[CHOOSE i \in 1 .. Len(clients) : clients[i].socketId = socketId]
                  ELSE NoClient
        found == {i \in 1 .. Len(st.waitingGames) :
                     client # NoClient /\ st.waitingGames[i].creatorId = client.userId}
        gameIndex == IF found = {} THEN 0
                     ELSE CHOOSE i \in found : \A j \in found : i <= j
    IN  [connectedClients |-> clients,
         connectionHeartbeats |-> [st.connectionHeartbeats EXCEPT ![socketId] = Cleared],
         waitingGames |-> IF gameIndex # 0
                          THEN RemoveAt(st.waitingGames, gameIndex)
                          ELSE st.waitingGames,
         dbGames |-> IF gameIndex # 0
                     THEN DeleteWaitingRow(st.dbGames, st.waitingGames[gameIndex].gameId)
                     ELSE st.dbGames]

(* connectionHeartbeats in the order of its keys: the sockets in the order *)
(* they connected                                                          *)
SocketOrder == <<"s1", "s2", "s3", "s4">>

(* staleConnections at instant t *)
IsStale(st, socketId, t) ==
    /\ st.connectionHeartbeats[socketId] # Cleared
    /\ t - st.connectionHeartbeats[socketId] > StaleMs

(* staleConnections.forEach from its i-th element on: the set was computed *)
(* from the table st0 before any cleanup                                   *)
RECURSIVE SweepFrom(_, _, _, _)
SweepFrom(st0, st, i, t) ==
    IF i > Len(SocketOrder) THEN st
    ELSE LET socketId == SocketOrder[i]
             hasClient == \E k \in 1 .. Len(st.connectedClients) :
                              st.connectedClients[k].socketId = socketId
         IN  SweepFrom(st0,
                       IF IsStale(st0, socketId, t) /\ hasClient
                       THEN CleanupClient(st, socketId) ELSE st,
                       i + 1, t)

(* A minute passes and the callback of the connection monitor runs.  Time  *)
(* moves by the monitor's period here: the callback of a game's clock,     *)
(* due every second, then runs once for the minute and subtracts the       *)
(* sixty seconds its sixty runs would have subtracted one by one.          *)
Sweep ==
    /\ connectionHeartbeats # Untracked
    /\ now < MaxMinutes * SweepMs
    /\ \A gameId \in DOMAIN gameObjects : ~TickDue(gameId)
    /\ now' = now + SweepMs
    /\ LET st == SweepFrom(ConnState, ConnState, 1, now + SweepMs)
       IN  /\ connectedClients' = st.connectedClients
           /\ connectionHeartbeats' = st.connectionHeartbeats
           /\ waitingGames' = st.waitingGames
           /\ dbGames' = st.dbGames
    /\ UNCHANGED <<socketConnected, sent, gameVars, dbUsers, dbMoves, room, calls>>

(* ----------------------- socket.on("create_game") --------------------- *)
(* uuidv4(): an id no game has *)
FreshIds ==
    GameIds \ (DOMAIN dbGames \cup {c.gameId : c \in BagToSet(calls)})

(* data?.timeControl || 30 *)
TimeControlOf(timeControl) ==
    IF timeControl = 0 THEN DefaultTimeControl * TimeControlUnit ELSE timeControl

(* create_game to the callback of its INSERT *)
CreateGame(s, timeControl) ==
    /\ socketConnected[s]
    /\ IF ClientGet(s) = NoClient
       THEN OnlyHeartbeat(s)
       ELSE /\ BagCardinality(calls) < MaxCalls
            /\ FreshIds # {}
            /\ LET gameId == CHOOSE g \in FreshIds : \A h \in FreshIds : h = g \/ g = "g1"
               IN  calls' = BagAdd(calls,
                       MatchCall("create_game", "insert", gameId, s, ClientGet(s).userId,
                                 [gameId |-> gameId,
                                  creatorId |-> ClientGet(s).userId,
                                  timeControl |-> TimeControlOf(timeControl),
                                  createdAt |-> 0]))
            /\ connectionHeartbeats' = Heartbeat(s)
            /\ UNCHANGED <<now, clientVars, waitingGames, gameVars, dbVars, room>>

(* The callback of the INSERT: the row is there and the game waits, or the *)
(* sender gets "Failed to create game"                                     *)
CreateGameInsert(c, ok) ==
    /\ c.fn = "create_game"
    /\ c.pc = "insert"
    /\ calls' = BagRemove(calls, c)
    /\ IF ok
       THEN /\ dbGames' = [g \in DOMAIN dbGames \cup {c.gameId} |->
                              IF g = c.gameId
                              THEN GameRow(c.userId, 0, "waiting", c.game.timeControl)
                              ELSE dbGames[g]]
            /\ waitingGames' = Append(waitingGames, [c.game EXCEPT !.createdAt = now])
       ELSE UNCHANGED <<dbGames, waitingGames>>
    /\ UNCHANGED <<now, connVars, gameVars, dbUsers, dbMoves, room>>

(* -------------------- socket.on("cancel_matchmaking") ------------------ *)
(* waitingGames.findIndex(g => g.creatorId === userId), 0 for -1 *)
FindWaitingGame(userId) ==
    LET found == {i \in 1 .. Len(waitingGames) : waitingGames[i].creatorId = userId}
    IN  IF found = {} THEN 0 ELSE CHOOSE i \in found : \A j \in found : i <= j

(* What the handler answers: matchmaking_cancelled, or nothing *)
CancelOutcome(s) ==
    IF ClientGet(s) = NoClient \/ FindWaitingGame(ClientGet(s).userId) = 0
    THEN Rejected(FALSE, << >>)
    ELSE Accepted(FALSE, <<[type |-> "matchmaking_cancelled"]>>)

(* The first waiting game of the client's user is removed, and its row if  *)
(* its status is waiting                                                   *)
CancelMatchmaking(s) ==
    /\ socketConnected[s]
    /\ IF CancelOutcome(s).outcome = "rejected"
       THEN OnlyHeartbeat(s)
       ELSE LET gameIndex == FindWaitingGame(ClientGet(s).userId) IN
            /\ waitingGames' = RemoveAt(waitingGames, gameIndex)
            /\ dbGames' = DeleteWaitingRow(dbGames, waitingGames[gameIndex].gameId)
            /\ connectionHeartbeats' = Heartbeat(s)
            /\ UNCHANGED <<now, clientVars, gameVars, dbUsers, dbMoves, room, calls>>

(* --------------------- socket.on("search_for_game") ------------------- *)
(* eloRanges *)
EloRanges(playerElo) ==
    [i \in 1 .. Len(BandWidths) + 1 |->
        IF i <= Len(BandWidths)
        THEN [min |-> playerElo - BandWidths[i], max |-> playerElo + BandWidths[i]]
        ELSE [min |-> FallbackMin, max |-> FallbackMax]]

(* The indices of waitingGames the filter keeps for a range *)
PotentialGames(client, range) ==
    {i \in 1 .. Len(waitingGames) :
        LET creatorClient == ClientFindByUser(waitingGames[i].creatorId) IN
        /\ waitingGames[i].creatorId # client.userId
        /\ creatorClient # NoClient
        /\ creatorClient.elo >= range.min
        /\ creatorClient.elo <= range.max}

(* creator?.elo || 1200 *)
EloOrDefault(client) ==
    IF client = NoClient \/ client.elo = 0 THEN EloFallback ELSE client.elo

EloDistance(i, playerElo) ==
    Abs(EloOrDefault(ClientFindByUser(waitingGames[i].creatorId)) - playerElo)

(* potentialGames.sort(...)[0]: the sort is stable, the first of the       *)
(* nearest games in the order of waitingGames                              *)
SortedFirst(potential, playerElo) ==
    CHOOSE i \in potential :
        \A j \in potential :
            \/ EloDistance(i, playerElo) < EloDistance(j, playerElo)
            \/ (EloDistance(i, playerElo) = EloDistance(j, playerElo) /\ i <= j)

(* The index in waitingGames of matchedGame, 0 for null *)
MatchedGame(client) ==
    LET eloRanges == EloRanges(client.elo)
        hits == {i \in 1 .. Len(eloRanges) : PotentialGames(client, eloRanges[i]) # {}}
    IN  IF hits = {} THEN 0
        ELSE LET first == CHOOSE i \in hits : \A j \in hits : i <= j
             IN  SortedFirst(PotentialGames(client, eloRanges[first]), client.elo)

(* What the first segment answers: an error, no_games_found, or nothing    *)
(* yet                                                                     *)
SearchOutcome(s) ==
    IF ClientGet(s) = NoClient
    THEN Rejected(FALSE, <<ErrorEv("User not authenticated")>>)
    ELSE IF MatchedGame(ClientGet(s)) = 0
    THEN Rejected(FALSE, <<[type |-> "no_games_found"]>>)
    ELSE Accepted(FALSE, << >>)

(* search_for_game to the callback of its UPDATE *)
SearchForGame(s) ==
    /\ socketConnected[s]
    /\ IF SearchOutcome(s).outcome = "rejected"
       THEN OnlyHeartbeat(s)
       ELSE LET client == ClientGet(s)
                gameIndex == MatchedGame(client)
            IN  /\ BagCardinality(calls) < MaxCalls
                /\ BagCardinality(sent) < MaxSent
                /\ waitingGames' = RemoveAt(waitingGames, gameIndex)
                /\ calls' = BagAdd(calls,
                       MatchCall("search_for_game", "join",
                                 waitingGames[gameIndex].gameId, s, client.userId,
                                 waitingGames[gameIndex]))
                /\ connectionHeartbeats' = Heartbeat(s)
                /\ UNCHANGED <<now, clientVars, gameVars, dbVars, room>>

MatchFoundSwapped(c, creatorSocketId) ==
    SetToBag({SentEv("match_found", creatorSocketId, c.gameId, "black", "")})
    (+) SetToBag({SentEv("match_found", c.socketId, c.gameId, "white", "")})

(* The two match_found of a pairing: the creator's socket is told white,   *)
(* the searcher's black                                                    *)
MatchFound(c, creatorSocketId) ==
    SetToBag({SentEv("match_found", creatorSocketId, c.gameId, "white", "")})
    (+) SetToBag({SentEv("match_found", c.socketId, c.gameId, "black", "")})

(* The callback of the UPDATE: on an error the sender gets "Failed to join *)
(* game"; else the two are paired if the creator is found and connected,   *)
(* and the game goes back to the end of waitingGames if not                *)
SearchJoin(c, ok) ==
    /\ c.fn = "search_for_game"
    /\ c.pc = "join"
    /\ calls' = BagRemove(calls, c)
    /\ IF ~ok
       THEN /\ sent' = BagAdd(sent, SentEv("error", c.socketId, "", "",
                                           "Failed to join game"))
            /\ UNCHANGED <<waitingGames, gameVars, dbGames>>
       ELSE LET creator == ClientFindByUser(c.game.creatorId) IN
            /\ dbGames' = IF c.gameId \in DOMAIN dbGames
                          THEN [dbGames EXCEPT ![c.gameId].player_black_id = c.userId,
                                               ![c.gameId].status = "inprogress"]
                          ELSE dbGames
            /\ IF creator # NoClient /\ socketConnected[creator.socketId]
               THEN /\ activeGames' = activeGames \cup {c.gameId}
                    /\ gameObjects' =
                          [g \in DOMAIN gameObjects \cup {c.gameId} |->
                              IF g = c.gameId
                              THEN NewActiveGame(g, c.game.creatorId, c.userId,
                                                 TimeControlOf(c.game.timeControl), now)
                              ELSE gameObjects[g]]
                    /\ sent' = sent (+) MatchFound(c, creator.socketId)
                    /\ UNCHANGED waitingGames
               ELSE /\ sent' = BagAdd(sent, SentEv("error", c.socketId, "", "",
                                                   "Opponent no longer available"))
                    /\ waitingGames' = Append(waitingGames, c.game)
                    /\ UNCHANGED gameVars
    /\ UNCHANGED <<now, connectedClients, socketConnected, connectionHeartbeats,
                   dbUsers, dbMoves, room>>

(* The server holds three connections of users 1, 2, 3 that have logged    *)
(* in, and a fourth that has not; no game exists.                          *)
InitMatch ==
    \E elos \in EloProfiles :
        /\ now = 0
        /\ connectedClients = [i \in 1 .. 3 |->
               [socketId |-> <<"s1", "s2", "s3">>[i], userId |-> i, elo |-> elos[i]]]
        /\ socketConnected = [s \in Sockets |-> TRUE]
        /\ waitingGames = << >>
        /\ activeGames = {}
        /\ gameObjects = << >>
        /\ dbUsers = [u \in Users |-> UserRow(elos[u])]
        /\ dbGames = << >>
        /\ dbMoves = << >>
        /\ room = [g \in GameIds |-> << >>]
        /\ calls = EmptyBag
        /\ connectionHeartbeats = Untracked
        /\ sent = EmptyBag

(* The inputs of login and of the loss of a socket: user 2 opens a second  *)
(* connection, and its first may go away                                   *)
LoginCommands == {<<"s4", 2>>}

DisconnectInputs == {"s2"}

NextMatch ==
    \/ \E cmd \in LoginCommands : Login(cmd[1], cmd[2])
    \/ \E s \in DisconnectInputs : Disconnect(s)
    \/ \E s \in Sockets, timeControl \in MatchTimeControls : CreateGame(s, timeControl)
    \/ \E c \in BagToSet(calls), ok \in BOOLEAN : CreateGameInsert(c, ok)
    \/ \E s \in Sockets : CancelMatchmaking(s)
    \/ \E s \in Sockets : SearchForGame(s)
    \/ \E c \in BagToSet(calls), ok \in BOOLEAN : SearchJoin(c, ok)
    \/ TimePasses(MaxMatchSteps)

SpecMatch == InitMatch /\ [][NextMatch]_vars

(* ==================== connections and reconnection ===================== *)
ReconnectionFailedEv(reason) == [type |-> "reconnection_failed", reason |-> reason]

OpponentReconnectedEv(player) == [type |-> "opponent_reconnected", player |-> player]

(* chess.isGameOver() *)
IsGameOver(chess) == IsCheckmate(chess) \/ IsStalemate(chess) \/ IsDraw(chess)

(* GameTimer.getTimerData *)
GetTimerData(timer) ==
    [player1Time |-> timer.player1TimeRemaining,
     player2Time |-> timer.player2TimeRemaining,
     currentPlayer |-> timer.currentPlayer,
     lastUpdate |-> timer.lastMoveTime]

GameStateOfJoiner(client, gameId, activeGame) ==
    [gameId |-> gameId,
     fen |-> Fen(activeGame.chess),
     turn |-> IF ChessTurn(activeGame.chess) = "w" THEN "white" ELSE "black",
     moves |-> activeGame.chess.history,
     isPlayerWhite |-> client.userId = activeGame.playerId2,
     timerData |-> GetTimerData(activeGame.timer),
     gameStatus |-> IF IsGameOver(activeGame.chess) THEN "ended" ELSE "inprogress"]

(* gameState of reconnect_to_game *)
GameState(client, gameId, activeGame) ==
    [gameId |-> gameId,
     fen |-> Fen(activeGame.chess),
     turn |-> IF ChessTurn(activeGame.chess) = "w" THEN "white" ELSE "black",
     moves |-> activeGame.chess.history,
     isPlayerWhite |-> client.userId = activeGame.playerId1,
     timerData |-> GetTimerData(activeGame.timer),
     gameStatus |-> IF IsGameOver(activeGame.chess) THEN "ended" ELSE "inprogress"]

(* ------------------- socket.on("reconnect_to_game") -------------------- *)
(* The early returns of the handler, in the order of the code, and the two *)
(* events it emits on the sender's socket when it has none                 *)
ReconnectOutcome(s, gameId) ==
    LET client == ClientGet(s) IN
    IF client = NoClient
    THEN Rejected(FALSE, <<ErrorEv("User not authenticated")>>)
    ELSE IF gameId = NoId
    THEN Rejected(FALSE, <<ErrorEv("Game ID required for reconnection")>>)
    ELSE IF gameId \notin activeGames
    THEN Rejected(FALSE, <<ReconnectionFailedEv("Game not found or has ended")>>)
    ELSE LET activeGame == gameObjects[gameId] IN
         IF client.userId # activeGame.playerId1 /\ client.userId # activeGame.playerId2
         THEN Rejected(FALSE, <<ReconnectionFailedEv("User not part of this game")>>)
         ELSE Accepted(FALSE,
                  <<[type |-> "game_state_sync",
                     gameState |-> GameState(client, gameId, activeGame)],
                    [type |-> "reconnection_success",
                     gameState |-> GameState(client, gameId, activeGame)]>>)

(* The handler: the heartbeat and, for a player of the game, the           *)
(* opponent_reconnected sent to the game's room                            *)
ReconnectEffect(s, gameId) ==
    LET writes == [gameObjects |-> gameObjects, activeGames |-> activeGames,
                   room |-> room, connectionHeartbeats |-> Heartbeat(s)]
    IN  IF ReconnectOutcome(s, gameId).outcome = "rejected"
        THEN writes
        ELSE [writes EXCEPT !.room[gameId] =
                 Append(@, OpponentReconnectedEv(ClientGet(s).userId))]

Reconnects(gameId) ==
    Len(SelectSeq(room[gameId], LAMBDA e : e.type = "opponent_reconnected"))

ReconnectToGame(s, gameId) ==
    LET effect == ReconnectEffect(s, gameId) IN
    /\ socketConnected[s]
    /\ ReconnectOutcome(s, gameId).outcome = "accepted"
       => Reconnects(gameId) < MaxReconnects
    /\ gameObjects' = effect.gameObjects
    /\ activeGames' = effect.activeGames
    /\ room' = effect.room
    /\ connectionHeartbeats' = effect.connectionHeartbeats
    /\ UNCHANGED <<now, clientVars, waitingGames, dbVars, calls>>

(* The session of users 1 and 2 after its first k moves, all played at     *)
(* instant 0 one after the other, with what the move handlers have emitted *)
(* and recorded                                                            *)
PlayedHistory(k) == [i \in 1 .. k |-> "n"]

PlayedGame(k, timeControl) ==
    LET game == NewActiveGame("g1", 1, 2, timeControl, 0) IN
    [game EXCEPT !.chess.history = PlayedHistory(k),
                 !.timer.currentPlayer = IF k % 2 = 0 THEN 1 ELSE 2]

PlayedRoom(k) ==
    [j \in 1 .. 2 * k |->
        LET i == (j + 1) \div 2
            mover == IF i % 2 = 1 THEN 1 ELSE 2
        IN  IF j % 2 = 1
            THEN [type |-> "timer_update", currentPlayer |-> IF mover = 1 THEN 2 ELSE 1]
            ELSE MoveMadeEv([san |-> "n", userId |-> mover], [history |-> PlayedHistory(i)])]

PlayedMoves(k) ==
    [i \in 1 .. k |->
        [game_id |-> "g1", move_number |-> i, move_notation |-> "n",
         player_id |-> IF i % 2 = 1 THEN 1 ELSE 2]]

(* A game paired at instant 0 with the default time control, in which      *)
(* users 1 and 2 have played up to MaxMoves moves; user 3 has created a    *)
(* game that waits; socket s4 has connected and not logged in.  Every      *)
(* socket was last seen at instant 0.                                      *)
InitConn ==
    \E k \in 0 .. MaxMoves :
        LET timeControl == TimeControlOf(0) IN
        /\ now = 0
        /\ connectedClients = <<ClientOf("s1", 1), ClientOf("s2", 2), ClientOf("s3", 3)>>
        /\ socketConnected = [s \in Sockets |-> TRUE]
        /\ waitingGames = <<[gameId |-> "g2", creatorId |-> 3,
                             timeControl |-> timeControl, createdAt |-> 0]>>
        /\ activeGames = {"g1"}
        /\ gameObjects = [g \in {"g1"} |-> PlayedGame(k, timeControl)]
        /\ dbUsers = [u \in Users |-> UserRow(DefaultElo)]
        /\ dbGames = [g \in GameIds |->
                         IF g = "g1" THEN GameRow(1, 2, "inprogress", timeControl)
                         ELSE GameRow(3, 0, "waiting", timeControl)]
        /\ dbMoves = PlayedMoves(k)
        /\ room = [g \in GameIds |-> IF g = "g1" THEN PlayedRoom(k) ELSE << >>]
        /\ calls = EmptyBag
        /\ connectionHeartbeats = [s \in Sockets |-> 0]
        /\ sent = EmptyBag

(* The sockets that go away, send heartbeats, or ask to reconnect: user 2  *)
(* on its first connection and on its second, before and after its login,  *)
(* and user 3, who plays no game                                           *)
ConnDisconnects == {"s1", "s2", "s3"}

ConnHeartbeats == {"s1"}

ConnReconnects == {"s2", "s3", "s4"} \X {"g1"}

NextConn ==
    \/ \E cmd \in LoginCommands : Login(cmd[1], cmd[2])
    \/ \E s \in ConnDisconnects : Disconnect(s)
    \/ \E s \in ConnHeartbeats : HeartbeatEvent(s)
    \/ Sweep
    \/ \E gameId \in GameIds : TimerTick(gameId)
    \/ \E cmd \in ConnReconnects : ReconnectToGame(cmd[1], cmd[2])

SpecConn == InitConn /\ [][NextConn]_vars

(* ============================== ratings ================================ *)
(* The rating helpers as a caller that hands them the database uses them:  *)
(* calculateEloChanges(winnerId, loserId, db), then updatePlayerElos with  *)
(* its result, each statement a segment of its own.  Several such calls    *)
(* run at a time, as the finalizations of several games do.                *)
RatingCall(pc, winnerId, loserId, winner, eloChanges) ==
    [fn |-> "rating", pc |-> pc, winnerId |-> winnerId, loserId |-> loserId,
     winner |-> winner, eloChanges |-> eloChanges]

(* The winner's row of a call that has not read it yet *)
NoRow == UserRow(0)

(* The games counted so far, and those the calls in flight may yet count *)
RatedGames ==
    LET RECURSIVE Won(_)
        Won(u) == IF u = 0 THEN 0 ELSE dbUsers[u].games_won + Won(u - 1)
    IN  Won(Cardinality(Users)) + BagCardinality(calls)

(* calculateEloChanges is called and awaits getUserById(winnerId) *)
RatingStart(winnerId, loserId) ==
    /\ winnerId # loserId
    /\ BagCardinality(calls) < MaxRatingCalls
    /\ RatedGames < MaxRated
    /\ calls' = BagAdd(calls, RatingCall("winner", winnerId, loserId,
                                         NoRow, EloChangesNone))
    /\ UNCHANGED <<now, connVars, waitingGames, gameVars, dbVars, room>>

(* A rejected statement: the catch of the helper logs, and the pair of     *)
(* zeros calculateEloChanges answers makes updatePlayerElos return early   *)
RatingEnds(c) ==
    /\ calls' = BagRemove(calls, c)
    /\ UNCHANGED dbUsers

(* getUserById(winnerId) settles; the helper awaits getUserById(loserId) *)
RatingReadWinner(c) ==
    /\ c.fn = "rating"
    /\ c.pc = "winner"
    /\ \E ok \in BOOLEAN :
         IF ok
         THEN /\ calls' = BagAdd(BagRemove(calls, c),
                                 [c EXCEPT !.pc = "loser", !.winner = dbUsers[c.winnerId]])
              /\ UNCHANGED dbUsers
         ELSE RatingEnds(c)
    /\ UNCHANGED <<now, connVars, waitingGames, gameVars, dbGames, dbMoves, room>>

(* getUserById(loserId) settles: the changes are computed and              *)
(* updatePlayerElos returns early or awaits the UPDATE of the winner       *)
RatingReadLoser(c) ==
    /\ c.fn = "rating"
    /\ c.pc = "loser"
    /\ \E ok \in BOOLEAN :
         LET eloChanges == EloChangesOf(c.winner, dbUsers[c.loserId]) IN
         IF ok /\ ~UpdateReturnsEarly(eloChanges)
         THEN /\ calls' = BagAdd(BagRemove(calls, c),
                                 [c EXCEPT !.pc = "updateWinner",
                                           !.eloChanges = eloChanges])
              /\ UNCHANGED dbUsers
         ELSE RatingEnds(c)
    /\ UNCHANGED <<now, connVars, waitingGames, gameVars, dbGames, dbMoves, room>>

(* The UPDATE of the winner settles *)
RatingUpdateWinner(c) ==
    /\ c.fn = "rating"
    /\ c.pc = "updateWinner"
    /\ \E ok \in BOOLEAN :
         IF ok
         THEN /\ dbUsers' = [dbUsers EXCEPT ![c.winnerId] = WinnerRow(@, c.eloChanges)]
              /\ calls' = BagAdd(BagRemove(calls, c), [c EXCEPT !.pc = "updateLoser"])
         ELSE RatingEnds(c)
    /\ UNCHANGED <<now, connVars, waitingGames, gameVars, dbGames, dbMoves, room>>

(* The UPDATE of the loser settles *)
RatingUpdateLoser(c) ==
    /\ c.fn = "rating"
    /\ c.pc = "updateLoser"
    /\ \E ok \in BOOLEAN :
         IF ok
         THEN /\ dbUsers' = [dbUsers EXCEPT ![c.loserId] = LoserRow(@, c.eloChanges)]
              /\ calls' = BagRemove(calls, c)
         ELSE RatingEnds(c)
    /\ UNCHANGED <<now, connVars, waitingGames, gameVars, dbGames, dbMoves, room>>

(* The ratings of users 1, 2, 3 when the first call starts: the default,   *)
(* two users a loss away from the floor, and a favourite far ahead         *)
RatingProfiles == {<<1200, 1200, 1200>>, <<110, 110, 1200>>, <<100, 900, 1700>>}

InitRating ==
    \E elos \in RatingProfiles :
        /\ now = 0
        /\ connectedClients = << >>
        /\ socketConnected = [s \in Sockets |-> FALSE]
        /\ waitingGames = << >>
        /\ activeGames = {}
        /\ gameObjects = << >>
        /\ dbUsers = [u \in Users |-> UserRow(elos[u])]
        /\ dbGames = << >>
        /\ dbMoves = << >>
        /\ room = [g \in GameIds |-> << >>]
        /\ calls = EmptyBag
        /\ connectionHeartbeats = Untracked
        /\ sent = EmptyBag

NextRating ==
    \/ \E winnerId \in Users, loserId \in Users : RatingStart(winnerId, loserId)
    \/ \E c \in BagToSet(calls) : RatingReadWinner(c)
    \/ \E c \in BagToSet(calls) : RatingReadLoser(c)
    \/ \E c \in BagToSet(calls) : RatingUpdateWinner(c)
    \/ \E c \in BagToSet(calls) : RatingUpdateLoser(c)

SpecRating == InitRating /\ [][NextRating]_vars

(* ----------------------------- properties ----------------------------- *)
Players(gameId) == {gameObjects[gameId].playerId1, gameObjects[gameId].playerId2}

OtherPlayer(gameId, userId) == CHOOSE u \in Players(gameId) : u # userId

GameOvers(gameId) ==
    {i \in 1 .. Len(room[gameId]) : room[gameId][i].type = "game_over"}

CallsOf(gameId) == {c \in BagToSet(calls) : c.gameId = gameId}

EndFns == {"endGameByCheckmate", "endGameByDraw", "endGameByResignation",
           "endGameByTimeout"}

LoggedIn == {s \in Sockets : ClientGet(s) # NoClient}

(* The clock of the game has flag-fallen: handleTimeExpiry ran *)
FlagFallen(gameId) ==
    LET timer == gameObjects[gameId].timer IN
    /\ ~timer.isActive
    /\ \/ (timer.currentPlayer = 1 /\ timer.player1TimeRemaining = 0)
       \/ (timer.currentPlayer = 2 /\ timer.player2TimeRemaining = 0)

(* C1: at most one game_over is ever emitted to the room of a game-id,     *)
(* whatever the interleaving of terminal moves, resignations and           *)
(* flag-fall.                                                              *)
C1_AtMostOneGameOver ==
    \A gameId \in GameIds : Cardinality(GameOvers(gameId)) <= 1

(* C2: game_over is the last event of a game's room: no move_made and no   *)
(* timer_update follows it.                                                *)
C2_GameOverIsLast ==
    \A gameId \in GameIds : \A i \in GameOvers(gameId) :
        \A j \in (i + 1) .. Len(room[gameId]) :
            room[gameId][j].type \notin {"move_made", "timer_update"}

(* The user owns the side to move of the game *)
OwnsSideToMove(userId, game) ==
    \/ (ChessTurn(game.chess) = "w" /\ userId = game.playerId1)
    \/ (ChessTurn(game.chess) = "b" /\ userId = game.playerId2)

(* C3: turn discipline: a move of an authenticated user who does not own   *)
(* the side to move of an active session (a user who plays in no game      *)
(* included) is answered "Not your turn", chess.move is not called and     *)
(* the game object is not changed.                                         *)
C3_TurnDiscipline ==
    \A s \in LoggedIn, gameId \in activeGames, move \in MoveInputs :
        ~OwnsSideToMove(ClientGet(s).userId, gameObjects[gameId])
        => /\ MoveOutcome(s, gameId, move)
                  = Rejected(FALSE, <<InvalidMoveEv("Not your turn")>>)
           /\ MoveEffect(s, gameId, move).gameObjects = gameObjects

(* C4: a rejected move (sender not authenticated, game id or move missing, *)
(* unknown game id, not the sender's turn, illegal move) changes no game   *)
(* state: position, side to move, history and clock of every session, the  *)
(* move records and the rooms are as before, and no handler is left        *)
(* pending.                                                                *)
C4_RejectedMoveChangesNothing ==
    \A s \in Sockets, gameId \in GameIds \cup {NoId}, move \in MoveInputs \cup {NoMove} :
        MoveOutcome(s, gameId, move).outcome = "rejected"
        => MoveEffect(s, gameId, move)
              = [gameObjects |-> gameObjects, activeGames |-> activeGames,
                 dbMoves |-> dbMoves, room |-> room, calls |-> calls]

(* The five rejections of a move are all possible after a move was played *)
C4_Witness ==
    /\ "g1" \in activeGames
    /\ Len(gameObjects["g1"].chess.history) = 1
    /\ gameObjects["g1"].timer.currentPlayer = 2
    /\ {MoveOutcome(cmd[1], cmd[2], cmd[3]).replies[1].reason :
            cmd \in {c \in Sockets \X (GameIds \cup {NoId}) \X (MoveInputs \cup {NoMove}) :
                        MoveOutcome(c[1], c[2], c[3]).outcome = "rejected"}}
         = {"User not authenticated", "Game ID and move required",
            "Game not found or no longer active", "Not your turn", "Invalid move"}

FailureEvents == {"error", "invalid_move", "reconnection_failed", "sync_failed"}

ExactlyOneFailure(outcome) ==
    outcome.outcome = "rejected"
    => (Len(outcome.replies) = 1 /\ outcome.replies[1].type \in FailureEvents)

(* C5: every rejected command is answered with exactly one failure event   *)
(* on the sender's socket; a rejected resign in particular.                *)
C5_RejectedCommandOneFailure ==
    /\ \A s \in Sockets, gameId \in GameIds \cup {NoId}, move \in MoveInputs \cup {NoMove} :
           ExactlyOneFailure(MoveOutcome(s, gameId, move))
    /\ \A s \in Sockets, gameId \in GameIds \cup {NoId} :
           ExactlyOneFailure(ResignOutcome(s, gameId))

(* C6: when a player of an active session resigns, whichever side is to    *)
(* move, the game is finalized with reason resignation and the other       *)
(* player as winner: when the handler of the resignation ends, the session *)
(* is out of the active set, the games row is finished with reason         *)
(* resignation and the other player as winner, and the last event of the   *)
(* room is a game_over that says so.                                       *)
C6_ResignationFinalizes ==
    [][\A c \in BagToSet(calls) :
          (/\ c.fn = "endGameByResignation"
           /\ c.loserId \in Players(c.gameId)
           /\ \/ EndGameUpdate(c, FALSE)
              \/ EndGameUsers(c, TRUE)
              \/ EndGameUsers(c, FALSE))
          => /\ c.gameId \notin activeGames'
             /\ dbGames'[c.gameId].status = "finished"
             /\ dbGames'[c.gameId].end_reason = "resignation"
             /\ dbGames'[c.gameId].winner_id = OtherPlayer(c.gameId, c.loserId)
             /\ Len(room'[c.gameId]) > 0
             /\ LET e == Last(room'[c.gameId]) IN
                /\ e.type = "game_over"
                /\ e.reason = "resignation"
                /\ e.player = c.loserId
                /\ e.winner = OtherPlayer(c.gameId, c.loserId)]_vars

(* C7: flag-fall: when the side to move never moves and nobody resigns,    *)
(* the clock reaches 0 and the game ends by timeout: once the clock has    *)
(* flag-fallen and nothing is pending, the session is removed and          *)
(* game_over was emitted with reason timeout and the opposite player as    *)
(* winner.                                                                 *)
C7_FlagFallFinalizes ==
    \A gameId \in DOMAIN gameObjects :
        LET game == gameObjects[gameId]
            loser == IF game.timer.currentPlayer = 1 THEN game.playerId1
                     ELSE game.playerId2
        IN  (/\ FlagFallen(gameId)
             /\ Len(game.chess.history) = 0
             /\ CallsOf(gameId) = {}
             /\ dbGames[gameId].end_reason \in {"", "timeout"})
            => /\ gameId \notin activeGames
               /\ \E i \in GameOvers(gameId) :
                     /\ room[gameId][i].reason = "timeout"
                     /\ room[gameId][i].winner = OtherPlayer(gameId, loser)

(* A terminal transition has begun: an end-game function was called *)
TerminalBegun(gameId) ==
    \/ \E c \in CallsOf(gameId) : c.fn \in EndFns
    \/ GameOvers(gameId) # {}

NotActive == Rejected(FALSE, <<InvalidMoveEv("Game not found or no longer active")>>)

(* C8: finalization is single-shot: once a terminal transition has begun   *)
(* for a game-id, every move and every resign for it is rejected as not    *)
(* active.                                                                 *)
C8_SingleShot ==
    \A gameId \in DOMAIN gameObjects :
        TerminalBegun(gameId)
        => \A s \in LoggedIn :
              /\ \A move \in MoveInputs : MoveOutcome(s, gameId, move) = NotActive
              /\ ResignOutcome(s, gameId).outcome = "rejected"

(* The session has reached a terminal state and no handler is pending *)
TerminalAndQuiet(gameId) ==
    /\ CallsOf(gameId) = {}
    /\ \/ FlagFallen(gameId)
       \/ IsCheckmate(gameObjects[gameId].chess)
       \/ IsStalemate(gameObjects[gameId].chess)

(* C9: a finalization ends with the session evicted and game_over emitted, *)
(* also when its write of the finished game row fails.                     *)
C9_EvictedDespiteWriteFailure ==
    \A gameId \in DOMAIN gameObjects :
        TerminalAndQuiet(gameId)
        => (gameId \notin activeGames /\ GameOvers(gameId) # {})

(* The waiting games of other players whose creator has a live             *)
(* authenticated connection                                                *)
Candidates(client) ==
    {i \in 1 .. Len(waitingGames) :
        /\ waitingGames[i].creatorId # client.userId
        /\ ClientFindByUser(waitingGames[i].creatorId) # NoClient}

RatingDistance(i, client) ==
    Abs(ClientFindByUser(waitingGames[i].creatorId).elo - client.elo)

(* Band k of the searcher: within 100, 200, 400 of its rating, then any *)
Band(client, k) ==
    IF k <= Len(BandWidths)
    THEN {i \in Candidates(client) : RatingDistance(i, client) <= BandWidths[k]}
    ELSE Candidates(client)

FirstNonEmptyBand(client) ==
    LET ks == {k \in 1 .. Len(BandWidths) + 1 : Band(client, k) # {}}
    IN  IF ks = {} THEN {}
        ELSE Band(client, CHOOSE k \in ks : \A l \in ks : k <= l)

(* C10: matchmaker fairness: for every searcher and every set of waiting   *)
(* games, the game search picks is a candidate of the first non-empty band *)
(* (within 100, 200, 400 of the searcher's rating, then unbounded) whose   *)
(* creator's rating is nearest to the searcher's.                          *)
C10_MatchmakerFairness ==
    \A s \in LoggedIn :
        LET client == ClientGet(s)
            band == FirstNonEmptyBand(client)
        IN  band # {}
            => /\ MatchedGame(client) \in band
               /\ \A j \in band :
                     RatingDistance(MatchedGame(client), client) <= RatingDistance(j, client)

(* The user has an authenticated connection whose socket is connected *)
LiveUser(userId) ==
    \E i \in 1 .. Len(connectedClients) :
        /\ connectedClients[i].userId = userId
        /\ socketConnected[connectedClients[i].socketId]

(* The sockets that can send a command of an authenticated user *)
Searchers == {s \in LoggedIn : socketConnected[s]}

(* The waiting games of other players whose creator has a live             *)
(* authenticated connection                                                *)
LiveCandidates(client) ==
    {i \in 1 .. Len(waitingGames) :
        /\ waitingGames[i].creatorId # client.userId
        /\ LiveUser(waitingGames[i].creatorId)}

(* C11: ties are broken by the oldest creation instant: the game search    *)
(* picks was created no later than any candidate whose creator's rating is *)
(* as near to the searcher's, in whatever order the waiting games were     *)
(* created, failed to pair and were re-added.                              *)
C11_OldestOnTie ==
    \A s \in Searchers :
        LET client == ClientGet(s)
            m == MatchedGame(client)
        IN  m # 0
            => \A j \in LiveCandidates(client) :
                   RatingDistance(j, client) = RatingDistance(m, client)
                   => waitingGames[m].createdAt <= waitingGames[j].createdAt

(* The callback of a search ended with the two paired *)
SearchPaired(c) == c.gameId \in activeGames'

(* C12: whenever a waiting game exists whose creator is not the searcher   *)
(* and has a live authenticated connection, whatever the creator's rating, *)
(* search does not answer no_games_found, and a search that picked the     *)
(* game of such a creator ends by pairing, never with an error.            *)
C12_SearchPairsWhenCandidate ==
    /\ [](\A s \in Searchers :
             LiveCandidates(ClientGet(s)) # {}
             => SearchOutcome(s).outcome = "accepted")
    /\ [][\A c \in BagToSet(calls), ok \in BOOLEAN :
             (SearchJoin(c, ok) /\ LiveUser(c.game.creatorId))
             => SearchPaired(c)]_vars

(* C13: search never picks a waiting game of the searcher's own user, nor  *)
(* one whose creator has no live authenticated connection at the time of   *)
(* the search, a creator whose socket has gone away and has not been swept *)
(* included.                                                               *)
C13_CandidateIsLiveOther ==
    \A s \in Searchers :
        LET client == ClientGet(s)
            m == MatchedGame(client)
        IN  m # 0
            => /\ waitingGames[m].creatorId # client.userId
               /\ LiveUser(waitingGames[m].creatorId)

(* The match_found events emitted for a game with a colour on the sockets  *)
(* of a user, as a bag                                                     *)
MatchFoundOf(gameId, yourColor, userId) ==
    LET evs == {e \in BagToSet(sent) :
                   /\ e.type = "match_found"
                   /\ e.gameId = gameId
                   /\ e.yourColor = yourColor
                   /\ ClientGet(e.to).userId = userId}
    IN  [e \in evs |-> sent[e]]

MatchFoundAll(gameId) ==
    LET evs == {e \in BagToSet(sent) : e.type = "match_found" /\ e.gameId = gameId}
    IN  [e \in evs |-> sent[e]]

(* C14: in every session created by pairing, the creator of the waiting    *)
(* game (the white player of its row) is player 1, white, and the searcher *)
(* who joined is player 2, black; two match_found were emitted for the     *)
(* game, one on a socket of the creator saying white and one on the socket *)
(* of the searcher saying black.                                           *)
C14_CreatorWhiteJoinerBlack ==
    \A g \in activeGames :
        LET game == gameObjects[g] IN
        /\ g \in DOMAIN dbGames
        /\ dbGames[g].player_white_id = game.playerId1
        /\ dbGames[g].player_black_id = game.playerId2
        /\ game.playerId1 # game.playerId2
        /\ game.timer.currentPlayer = 1
        /\ BagCardinality(MatchFoundAll(g)) = 2
        /\ BagCardinality(MatchFoundOf(g, "white", game.playerId1)) = 1
        /\ BagCardinality(MatchFoundOf(g, "black", game.playerId2)) = 1

(* A game is paired after a first search for it failed *)
C14_Witness ==
    \E g \in activeGames :
        /\ BagCardinality(MatchFoundAll(g)) = 2
        /\ \E e \in BagToSet(sent) : e.type = "error"
        /\ gameObjects[g].playerId1 = 2

(* The user has no waiting game, in memory or as a row *)
NothingWaiting(userId) ==
    /\ \A i \in 1 .. Len(waitingGames) : waitingGames[i].creatorId # userId
    /\ \A g \in DOMAIN dbGames :
           ~(dbGames[g].player_white_id = userId /\ dbGames[g].status = "waiting")

(* C15: cancel_matchmaking of an authenticated player removes the player's *)
(* waiting game and its row: right after the command no waiting game of    *)
(* the player is in waitingGames and no row of the player has status       *)
(* waiting, however many games the player had created.                     *)
C15_CancelRemovesWaitingGame ==
    [][\A s \in Searchers :
          CancelMatchmaking(s) => NothingWaiting(ClientGet(s).userId)']_vars

(* C16: a waiting game is destroyed when its creator's connection goes     *)
(* away: once the creator has no connection left, disconnected or reaped   *)
(* by the sweeper, none of its games is in waitingGames.                   *)
C16_WaitingGameDiesWithConnection ==
    \A i \in 1 .. Len(waitingGames) : LiveUser(waitingGames[i].creatorId)

(* C17: disconnect handling does the sweeper's cleanup at once: a socket   *)
(* that has gone away has no entry in connectedClients and none in         *)
(* connectionHeartbeats, before any sweep.                                 *)
C17_DisconnectCleansAtOnce ==
    \A s \in Sockets :
        ~socketConnected[s]
        => /\ ClientGet(s) = NoClient
           /\ connectionHeartbeats[s] = Cleared

(* The session as the players know it: the position with its history and  *)
(* side to move, and the two players                                       *)
SessionCore ==
    [g \in activeGames |->
        [chess |-> gameObjects[g].chess,
         turn |-> ChessTurn(gameObjects[g].chess),
         playerId1 |-> gameObjects[g].playerId1,
         playerId2 |-> gameObjects[g].playerId2]]

(* C18: the loss of a connection leaves the active sessions as they are:   *)
(* when a socket goes away and when the sweeper runs, no session leaves    *)
(* the active set and none changes its position, side to move, history or  *)
(* players; and a player of an active session who is authenticated on a    *)
(* connected socket is let in by reconnect_to_game.                        *)
C18_ConnectionLossKeepsSession ==
    /\ [][((\E s \in Sockets : Disconnect(s)) \/ Sweep)
            => SessionCore' = SessionCore]_vars
    /\ [](\A s \in Searchers, g \in activeGames :
             ClientGet(s).userId \in Players(g)
             => ReconnectOutcome(s, g).outcome = "accepted")

(* User 2 has lost its connection, the sweeper has reaped it, and user 2   *)
(* has logged in again and reconnected to the game, two moves in           *)
C18_Witness ==
    /\ ~socketConnected["s2"]
    /\ ClientGet("s2") = NoClient
    /\ ClientGet("s4").userId = 2
    /\ "g1" \in activeGames
    /\ Len(gameObjects["g1"].chess.history) = 2
    /\ Reconnects("g1") = 1

(* The game_state_sync events among the replies of reconnect_to_game *)
Snapshots(s, gameId) ==
    SelectSeq(ReconnectOutcome(s, gameId).replies, LAMBDA e : e.type = "game_state_sync")

(* C19: reconnect_to_game reads the session and does not write it: for a   *)
(* player of an active session the reply holds one game_state_sync with    *)
(* the session's position, side to move, whole history and clock, and      *)
(* isPlayerWhite is true for the white player alone; the handler leaves    *)
(* the session's position, history and clock as they are; anybody else     *)
(* gets no game_state_sync.                                                *)
C19_ReconnectIsReadOnly ==
    \A s \in Sockets, gameId \in GameIds \cup {NoId} :
        /\ ReconnectEffect(s, gameId).gameObjects = gameObjects
        /\ ReconnectEffect(s, gameId).activeGames = activeGames
        /\ IF /\ ClientGet(s) # NoClient
              /\ gameId \in activeGames
              /\ ClientGet(s).userId \in Players(gameId)
           THEN /\ Len(Snapshots(s, gameId)) = 1
                /\ LET gameState == Snapshots(s, gameId)[1].gameState
                       game == gameObjects[gameId]
                   IN  /\ gameState.gameId = gameId
                       /\ gameState.moves = game.chess.history
                       /\ gameState.fen = Fen(game.chess)
                       /\ gameState.turn = IF Len(game.chess.history) % 2 = 0
                                           THEN "white" ELSE "black"
                       /\ gameState.isPlayerWhite
                              = (ClientGet(s).userId = dbGames[gameId].player_white_id)
                       /\ gameState.timerData.player1Time = game.timer.player1TimeRemaining
                       /\ gameState.timerData.player2Time = game.timer.player2TimeRemaining
                       /\ gameState.timerData.currentPlayer = game.timer.currentPlayer
           ELSE Len(Snapshots(s, gameId)) = 0

(* Black reconnects on a new connection after two moves, the clock of      *)
(* white having run for a minute; user 3 asks too                          *)
C19_Witness ==
    /\ ClientGet("s4").userId = 2
    /\ socketConnected["s4"]
    /\ ~socketConnected["s2"]
    /\ "g1" \in activeGames
    /\ Len(gameObjects["g1"].chess.history) = 2
    /\ gameObjects["g1"].timer.player1TimeRemaining < TotalSeconds(TimeControlOf(0))
    /\ Len(Snapshots("s4", "g1")) = 1
    /\ ~Snapshots("s4", "g1")[1].gameState.isPlayerWhite
    /\ socketConnected["s3"]
    /\ ReconnectOutcome("s3", "g1").outcome = "rejected"

(* C20: the clock invariant: in every state of every session's clock, from *)
(* its construction at pairing on and whatever time control the creator    *)
(* sent with create_game, the remaining seconds of white and of black are  *)
(* at least 0.                                                             *)
C20_ClockNeverNegative ==
    \A g \in DOMAIN gameObjects :
        /\ gameObjects[g].timer.player1TimeRemaining >= 0
        /\ gameObjects[g].timer.player2TimeRemaining >= 0

(* The remaining seconds of a side of the clock *)
Remaining(timer, side) ==
    IF side = 1 THEN timer.player1TimeRemaining ELSE timer.player2TimeRemaining

(* The whole seconds the running side has run since the clock last        *)
(* restarted it                                                            *)
RunningFor(timer) == (now - timer.lastMoveTime) \div MsPerSecond

(* C21: clock switch: when a legal move switches the running clock, the    *)
(* remaining time of the side that just stopped is decremented by the      *)
(* time elapsed since that side started running (clamped at 0), the        *)
(* running-since instant is reset to now, and the other side becomes the   *)
(* running side.                                                           *)
C21_ClockSwitchDebits ==
    \A s \in LoggedIn, gameId \in activeGames, move \in MoveInputs :
        LET old == gameObjects[gameId].timer
            new == MoveEffect(s, gameId, move).gameObjects[gameId].timer
        IN  (MoveOutcome(s, gameId, move).outcome = "accepted" /\ old.isActive)
            => /\ Remaining(new, old.currentPlayer)
                     = Max(0, Remaining(old, old.currentPlayer) - RunningFor(old))
               /\ new.lastMoveTime = now
               /\ new.currentPlayer # old.currentPlayer

(* The whole seconds since the session of the game started *)
SessionSeconds(gameId) == (now - gameObjects[gameId].startTime) \div MsPerSecond

(* What the two clocks of the game held when the session started *)
InitialTotal(gameId) == 2 * TotalSeconds(dbGames[gameId].time_control_minutes)

ClockConserved(gameId) ==
    LET timer == gameObjects[gameId].timer IN
    Abs(Remaining(timer, 1) + Remaining(timer, 2) + SessionSeconds(gameId)
        - InitialTotal(gameId)) <= 1

(* C22: clock conservation: for every active session, after any sequence   *)
(* of moves and ticks, white-remaining + black-remaining + the time        *)
(* elapsed since the session started equals the initial total to within    *)
(* one second, and each side's remaining time never increases.  The sum   *)
(* is taken when the clock's callback is not overdue.                      *)
C22_ClockConservation ==
    /\ [](\A gameId \in activeGames :
            (gameObjects[gameId].timer.isActive /\ ~TickDue(gameId))
            => ClockConserved(gameId))
    /\ [][\A gameId \in (DOMAIN gameObjects) \cap (DOMAIN gameObjects'),
             side \in {1, 2} :
             Remaining(gameObjects'[gameId].timer, side)
                 <= Remaining(gameObjects[gameId].timer, side)]_vars

(* The step is a run of handleTimeExpiry for the game: endGameByTimeout    *)
(* has started                                                             *)
ExpiryStep(gameId) ==
    \E winnerId \in Users, loserId \in Users :
        calls' = BagAdd(calls, EndCall("endGameByTimeout", gameId, winnerId,
                                       loserId, "timeout"))

(* C23: the clock of a session invokes its flag-fall handler at most once  *)
(* over the lifetime of the session, for any sequence of ticks, moves and  *)
(* stops: the handler runs on a running clock only and leaves it stopped,  *)
(* and a stopped clock never runs again.                                   *)
C23_FlagFallAtMostOnce ==
    [][\A gameId \in (DOMAIN gameObjects) \cap (DOMAIN gameObjects') :
         LET timer == gameObjects[gameId].timer
             timer2 == gameObjects'[gameId].timer
         IN  /\ ExpiryStep(gameId) => (timer.isActive /\ ~timer2.isActive)
             /\ ~timer.isActive => ~timer2.isActive]_vars

(* The flag of white has fallen, endGameByTimeout awaits its UPDATE, and   *)
(* a move of white has since switched the stopped clock                    *)
C23_Witness ==
    LET timer == gameObjects["g1"].timer IN
    /\ \E c \in BagToSet(calls) : c.fn = "endGameByTimeout" /\ c.gameId = "g1"
    /\ ~timer.isActive
    /\ timer.player1TimeRemaining = 0
    /\ timer.currentPlayer = 2

TimerUpdates(events) ==
    {i \in 1 .. Len(events) : events[i].type = "timer_update"}

(* The fields of a clock that its flag-fall freezes *)
ClockFace(timer) ==
    <<timer.player1TimeRemaining, timer.player2TimeRemaining,
      timer.currentPlayer, timer.lastMoveTime>>

(* C24: after flag-fall has fired the clock is frozen: its white-remaining, *)
(* black-remaining, running side and running-since instant never change    *)
(* again, and no further timer_update is emitted to the game's room, even   *)
(* if a move for that game-id is processed before the session is evicted.   *)
C24_FrozenAfterFlagFall ==
    [][\A gameId \in (DOMAIN gameObjects) \cap (DOMAIN gameObjects') :
         FlagFallen(gameId)
         => /\ ClockFace(gameObjects'[gameId].timer)
                  = ClockFace(gameObjects[gameId].timer)
            /\ TimerUpdates(room'[gameId]) = TimerUpdates(room[gameId])]_vars

(* The game_over events of a reason in the room of a game whose session    *)
(* has been deleted                                                        *)
FinalOvers(gameId, reasons) ==
    IF gameId \in activeGames THEN {}
    ELSE {i \in GameOvers(gameId) : room[gameId][i].reason \in reasons}

(* The row every user has before the first game is finalized *)
FreshRow == UserRow(DefaultElo)

(* What the rating calculator answers for two such users *)
FreshChanges == EloChangesOf(FreshRow, FreshRow)

(* C25: after a game has ended by checkmate, the winner's persisted rating *)
(* has risen and the loser's has dropped by the deltas of the rating       *)
(* calculator (subject to the floor of 100); for two players of equal      *)
(* rating and fewer than 10 games the two changes are non-zero and of      *)
(* equal magnitude, and the game_over event reports them.                  *)
C25_CheckmateMovesRatings ==
    \A gameId \in DOMAIN gameObjects :
        \A i \in FinalOvers(gameId, {"checkmate"}) :
            LET ev == room[gameId][i]
                loserId == OtherPlayer(gameId, ev.winner)
            IN  /\ FreshChanges.winnerChange > 0
                /\ FreshChanges.loserChange = 0 - FreshChanges.winnerChange
                /\ ev.eloChanges = <<FreshChanges>>
                /\ dbUsers[ev.winner].elo = FreshRow.elo + FreshChanges.winnerChange
                /\ dbUsers[loserId].elo
                       = Max(RatingFloor, FreshRow.elo + FreshChanges.loserChange)

(* C26: finalization requests rating updates for every decisive outcome:   *)
(* a game that has ended by resignation or by timeout has updated the      *)
(* winner's and the loser's persisted rating, games-played and games-won   *)
(* as the rating helpers update them after a checkmate.                    *)
C26_EveryDecisiveOutcomeRated ==
    \A gameId \in DOMAIN gameObjects :
        \A i \in FinalOvers(gameId, {"resignation", "timeout"}) :
            LET ev == room[gameId][i]
                loserId == OtherPlayer(gameId, ev.winner)
            IN  /\ dbUsers[ev.winner].games_played >= 1
                /\ dbUsers[ev.winner].games_won >= 1
                /\ dbUsers[ev.winner].elo > FreshRow.elo
                /\ dbUsers[loserId].games_played >= 1
                /\ dbUsers[loserId].elo < FreshRow.elo

(* C27: applying the rating result of a decisive game increments           *)
(* games_played by exactly 1 for both players and games_won by exactly 1   *)
(* for the winner, whatever the two rating deltas, both being 0 included:  *)
(* once the one game of the table has ended by checkmate and its session   *)
(* is deleted, both players have played one game and the winner has won    *)
(* one.                                                                    *)
C27_GamesCountedWhateverDeltas ==
    \A gameId \in DOMAIN gameObjects :
        \A i \in FinalOvers(gameId, {"checkmate"}) :
            LET ev == room[gameId][i]
                loserId == OtherPlayer(gameId, ev.winner)
            IN  /\ dbUsers[ev.winner].games_played = 1
                /\ dbUsers[ev.winner].games_won = 1
                /\ dbUsers[loserId].games_played = 1
                /\ dbUsers[loserId].games_won = 0

(* C28: rating floor: in every reachable state, after any sequence of      *)
(* finished games, those whose rating updates interleave on one user       *)
(* included, no user's persisted rating is below 100.                      *)
C28_RatingFloor ==
    \A u \in Users : dbUsers[u].elo >= RatingFloor

(* A user who has lost one game and won none is stored at the floor, and   *)
(* the UPDATE of a second loss, whose delta would take the rating below    *)
(* the floor, is about to run                                              *)
C28_Witness ==
    \E u \in Users :
        /\ dbUsers[u].elo = RatingFloor
        /\ dbUsers[u].games_played = 1
        /\ dbUsers[u].games_won = 0
        /\ \E c \in BagToSet(calls) :
              /\ c.fn = "rating"
              /\ c.pc = "updateLoser"
              /\ c.loserId = u
              /\ dbUsers[u].elo + c.eloChanges.loserChange < RatingFloor

(* The move records persisted for the game *)
MoveRecords(gameId) ==
    {i \in 1 .. Len(dbMoves) : dbMoves[i].game_id = gameId}

(* A move handler of the game is suspended at an await *)
MoveInHand(gameId) ==
    \E c \in BagToSet(calls) : c.fn = "move" /\ c.gameId = gameId

(* C29: for every active session, at every point where no move handler is  *)
(* mid-execution, the number of moves applied to the position, which is    *)
(* the length of the session's move history, equals the number of move     *)
(* records persisted for that game-id, also when a cache write or the      *)
(* move-record write fails.                                                *)
C29_HistoryMatchesRecords ==
    \A gameId \in activeGames :
        ~MoveInHand(gameId)
        => Len(gameObjects[gameId].chess.history) = Cardinality(MoveRecords(gameId))

(* The user who made the k-th half-move of the game *)
MoverOf(gameId, k) ==
    IF k % 2 = 1 THEN gameObjects[gameId].playerId1 ELSE gameObjects[gameId].playerId2

(* C30: the move records of a game carry dense 1-based half-move numbers:   *)
(* a record numbered k is that of the k-th move applied in the session,     *)
(* with its notation and its mover's player-id, and no two records of a     *)
(* game share a move_number, also when the opponent's next move is applied  *)
(* while the first move's handler still awaits the cache write.             *)
C30_DenseMoveNumbers ==
    \A gameId \in DOMAIN gameObjects :
        \A i \in MoveRecords(gameId) :
            LET rec == dbMoves[i]
                history == gameObjects[gameId].chess.history
            IN  /\ rec.move_number \in 1 .. Len(history)
                /\ rec.move_notation = history[rec.move_number]
                /\ rec.player_id = MoverOf(gameId, rec.move_number)
                /\ \A j \in MoveRecords(gameId) \ {i} :
                       dbMoves[j].move_number # rec.move_number

MoveMades(gameId) ==
    {i \in 1 .. Len(room[gameId]) : room[gameId][i].type = "move_made"}

(* The half-move a move_made event of the room reports: the n-th event of  *)
(* white reports white's n-th move, the n-th of black black's n-th         *)
ReportedMove(gameId, i) ==
    LET player == room[gameId][i].player
        rank == Cardinality({j \in MoveMades(gameId) :
                                j <= i /\ room[gameId][j].player = player})
    IN  IF player = gameObjects[gameId].playerId1 THEN 2 * rank - 1 ELSE 2 * rank

(* C31: within a game, move_made events are delivered to the room in       *)
(* exactly the order in which their moves were applied to the position,    *)
(* for every interleaving of the two players' move handlers and their      *)
(* cache writes.                                                           *)
C31_MoveMadeInOrder ==
    \A gameId \in DOMAIN gameObjects :
        \A i \in MoveMades(gameId), j \in MoveMades(gameId) :
            i < j => ReportedMove(gameId, i) < ReportedMove(gameId, j)

(* C32: every move_made event describes its own move: its fen is the       *)
(* position that results from exactly that move and its turn is the side   *)
(* to move right after it, also when a further move is applied to the      *)
(* session before the event is emitted.                                    *)
C32_MoveMadeDescribesItsMove ==
    \A gameId \in DOMAIN gameObjects :
        \A i \in MoveMades(gameId) :
            LET ev == room[gameId][i]
                history == gameObjects[gameId].chess.history
                k == ReportedMove(gameId, i)
            IN  /\ k <= Len(history)
                /\ ev.fen = SubSeq(history, 1, k)
                /\ ev.turn = IF k % 2 = 1 THEN "black" ELSE "white"

(* The move handlers of a user for a game that are suspended at an await:  *)
(* their moves are applied and not yet answered by a broadcast             *)
MovesInHand(gameId, userId) ==
    LET mine == {c \in BagToSet(calls) :
                    c.fn = "move" /\ c.gameId = gameId /\ c.userId = userId}
        RECURSIVE Copies(_)
        Copies(cs) == IF cs = {} THEN 0
                      ELSE LET c == CHOOSE x \in cs : TRUE
                           IN  CopiesIn(c, calls) + Copies(cs \ {c})
    IN  Copies(mine)

(* C33: a player's move command is acknowledged, by a move_made broadcast  *)
(* reaching that player or by an error reply, before the next move command *)
(* of the same player for the same game is applied: a player never has two *)
(* applied moves awaiting their broadcast.                                 *)
C33_MoveAcknowledgedBeforeNext ==
    \A gameId \in DOMAIN gameObjects, userId \in Users :
        MovesInHand(gameId, userId) <= 1

(* The end-reasons of a finished game, and those of them that are draws *)
EndReasons ==
    {"checkmate", "stalemate", "insufficient-material", "threefold",
     "fifty-move", "resignation", "timeout", "agreed-draw"}

DrawReasons ==
    {"stalemate", "insufficient-material", "threefold", "fifty-move", "agreed-draw"}

(* C34: every finished game row has an end-reason from the set checkmate,  *)
(* stalemate, insufficient-material, threefold, fifty-move, resignation,   *)
(* timeout, agreed-draw, and a game that ends in a draw has a null winner  *)
(* in the durable row and in the game_over event.                          *)
C34_EndReasonAndDrawWinner ==
    /\ \A gameId \in DOMAIN dbGames :
          dbGames[gameId].status = "finished"
          => /\ dbGames[gameId].end_reason \in EndReasons
             /\ dbGames[gameId].end_reason \in DrawReasons
                => dbGames[gameId].winner_id = 0
    /\ \A gameId \in GameIds : \A i \in GameOvers(gameId) :
          room[gameId][i].result = "draw" => room[gameId][i].winner = 0

StatusRank(status) ==
    IF status = "waiting" THEN 1 ELSE IF status = "inprogress" THEN 2 ELSE 3

(* C35: the durable status of a game only moves waiting, then in-progress, *)
(* then finished and never backwards; finished is terminal: once a game    *)
(* row has status finished, its status, winner and end-reason are never    *)
(* written again.                                                          *)
C35_FinishedIsTerminal ==
    [][\A gameId \in (DOMAIN dbGames) \cap (DOMAIN dbGames') :
         LET row == dbGames[gameId]
             row2 == dbGames'[gameId]
         IN  /\ StatusRank(row2.status) >= StatusRank(row.status)
             /\ row.status = "finished"
                => /\ row2.status = row.status
                   /\ row2.winner_id = row.winner_id
                   /\ row2.end_reason = row.end_reason]_vars

(* C36: finalization writes the total number of moves into the durable     *)
(* game row: once a game is finished and its session deleted, the row's    *)
(* total_moves equals the number of moves applied in the session.          *)
C36_TotalMovesWritten ==
    \A gameId \in (DOMAIN dbGames) \cap (DOMAIN gameObjects) :
        (dbGames[gameId].status = "finished" /\ gameId \notin activeGames)
        => dbGames[gameId].total_moves = Len(gameObjects[gameId].chess.history)

(* The player who gave checkmate in a game: the mover of the mating move,  *)
(* 0 when no move of the game mates                                        *)
MatingPlayer(gameId) ==
    LET history == gameObjects[gameId].chess.history
        mates == {i \in 1 .. Len(history) : history[i] = "mate"}
    IN  IF mates = {} THEN 0 ELSE MoverOf(gameId, CHOOSE i \in mates : TRUE)

(* C37: when a move produces checkmate, the winner recorded in the durable *)
(* row and named in game_over is the player who made the mating move and   *)
(* the loser is the opponent, also when the mating move is applied while   *)
(* the handler of the other player's previous move still awaits its cache  *)
(* write.                                                                  *)
C37_MatingPlayerWins ==
    \A gameId \in DOMAIN gameObjects :
        /\ \A c \in CallsOf(gameId) :
               c.fn = "endGameByCheckmate"
               => /\ c.winnerId = MatingPlayer(gameId)
                  /\ c.loserId = OtherPlayer(gameId, MatingPlayer(gameId))
        /\ \A i \in GameOvers(gameId) :
               room[gameId][i].reason = "checkmate"
               => room[gameId][i].winner = MatingPlayer(gameId)
        /\ (gameId \in DOMAIN dbGames /\ dbGames[gameId].end_reason = "checkmate")
           => dbGames[gameId].winner_id = MatingPlayer(gameId)

(* C38: only the two players of a session can end it by resignation: a     *)
(* resign command for an active game-id sent by an authenticated user who  *)
(* is neither its white nor its black player does not finalize the game,   *)
(* emits no game_over and leaves the session in the active set.            *)
C38_OnlyPlayersResign ==
    \A gameId \in DOMAIN gameObjects :
        /\ \A c \in CallsOf(gameId) :
               c.fn = "endGameByResignation" => c.loserId \in Players(gameId)
        /\ \A i \in GameOvers(gameId) :
               room[gameId][i].reason = "resignation"
               => room[gameId][i].player \in Players(gameId)

(* The error a searcher is sent when the creator of the game it selected   *)
(* is not reachable                                                        *)
OpponentGone(c) == SentEv("error", c.socketId, "", "", "Opponent no longer available")

(* The step is the join callback of search c giving up on the pairing *)
SearchGivesUp(c) ==
    /\ c.fn = "search_for_game"
    /\ calls' = BagRemove(calls, c)
    /\ CopiesIn(OpponentGone(c), sent') > CopiesIn(OpponentGone(c), sent)

(* C39: a search that selects a waiting game but cannot pair it because    *)
(* the creator's connection is no longer connected leaves the matchmaking  *)
(* state as it was before the search: the waiting game is back in the      *)
(* in-memory set, its durable row still has status waiting with no black   *)
(* player, and no session exists for that game-id.                         *)
C39_FailedPairingRestores ==
    [][\A c \in BagToSet(calls) :
         SearchGivesUp(c)
         => /\ \E i \in 1 .. Len(waitingGames') : waitingGames'[i] = c.game
            /\ c.gameId \notin activeGames'
            /\ c.gameId \in DOMAIN dbGames'
               => /\ dbGames'[c.gameId].status = "waiting"
                  /\ dbGames'[c.gameId].player_black_id = 0]_vars

(* The side whose clock runs, as a colour: player 1 is white *)
ClockSide(timer) == IF timer.currentPlayer = 1 THEN "w" ELSE "b"

(* C40: in every active session, whenever no move handler is mid-execution, *)
(* the clock's running side equals the position's side to move (clock       *)
(* player 1 running exactly when it is white's turn), from pairing until    *)
(* the session is evicted.                                                  *)
C40_ClockSideIsSideToMove ==
    \A gameId \in activeGames :
        ~MoveInHand(gameId)
        => ClockSide(gameObjects[gameId].timer) = ChessTurn(gameObjects[gameId].chess)

(* A session in which black is to move and black's clock runs, its move    *)
(* handler over                                                            *)
C40_Witness ==
    \E gameId \in activeGames :
        /\ ~MoveInHand(gameId)
        /\ Len(gameObjects[gameId].chess.history) = 1
        /\ gameObjects[gameId].timer.currentPlayer = 2

====
